---- MODULE Spec2Model ----
(***************************************************************************)
(* A model of the SFS block filesystem (FishingHacks/sfs): the byte        *)
(* addressed disk, the superblock, the block array descriptors (allocation *)
(* bitmaps), the block allocator, inodes with direct / indirect block      *)
(* pointers, directory entries and the directory iterator.                 *)
(*                                                                         *)
(* The disk is a byte array of num_blocks * BLOCK_SIZE bytes.  It is kept  *)
(* as a sparse function from the addresses that hold a non-zero byte to    *)
(* that byte; every other address below disk_len reads as 0.  All address  *)
(* arithmetic is the arithmetic of the source, with the source's constants.*)
(***************************************************************************)
EXTENDS Integers, Sequences, FiniteSets, TLC

VARIABLES
    disk,       \* Disk: address -> non-zero byte (absent = 0)
    disk_len,   \* length of the device in bytes
    sb,         \* FileSystem.superblock, the in-memory superblock
    pad,        \* value the build leaves in struct padding bytes (indeterminate)
    checked,    \* TRUE: overflow checks on (debug build); FALSE: wrapping (release)
    held,       \* block ids a call of AllocateBlock returned and the caller has not freed
    written,    \* block ids the caller has stored data in
    nodes,      \* inode numbers the caller got from create_dir_entry, with their names
    last,       \* the last call: [op, arg, res, val]
    out,        \* the data the last call returned (a listing, a read buffer)
    nops        \* number of calls made so far

vars == <<disk, disk_len, sb, pad, checked, held, written, nodes, last, out, nops>>

----------------------------------------------------------------------------
(* Program constants *)

BLOCK_SIZE == 4096
BLOCKS_PER_BLOCKARRAY == 16384
KIND_BITMAP_OFFSET == 2048
INODE_SIZE == 128
INODES_PER_BLOCK == BLOCK_SIZE \div INODE_SIZE
SUPERBLOCK_ADDR == 4096
SUPERBLOCK_SIZE == 88
DIRENTRY_NAME_LENGTH == 255
U16 == 65536

SUPERBLOCK_SIGNATURE_SFS == <<83, 70, 115, 32, 115, 98, 108, 107>>

----------------------------------------------------------------------------
(* Bounds of the model *)

MaxBlocks == 7      \* devices of up to MaxBlocks blocks
MaxOps == 5         \* allocator calls per behaviour
MaxFileOps == 3     \* file and directory calls per behaviour
ClockSecs == 1      \* what SystemTime::now() returns

----------------------------------------------------------------------------
(* Bytes, buffers and the sparse byte store *)

Min(a, b) == IF a < b THEN a ELSE b
Max(a, b) == IF a > b THEN a ELSE b

\* byte k of the little-endian encoding of v (the model's values are below 2^31)
Byte(v, k) ==
    IF k = 0 THEN v % 256
    ELSE IF k = 1 THEN (v \div 256) % 256
    ELSE IF k = 2 THEN (v \div 65536) % 256
    ELSE IF k = 3 THEN v \div 16777216
    ELSE 0
LE16(v) == <<Byte(v, 0), Byte(v, 1)>>
LE32(v) == <<Byte(v, 0), Byte(v, 1), Byte(v, 2), Byte(v, 3)>>
LE64(v) == LE32(v) \o <<0, 0, 0, 0>>

\* bit k of a byte, and the byte with bit k set / cleared
Bit(b, k) == (b \div (2 ^ k)) % 2
SetBit(b, k) == IF Bit(b, k) = 1 THEN b ELSE b + 2 ^ k
ClearBit(b, k) == IF Bit(b, k) = 1 THEN b - 2 ^ k ELSE b

\* a buffer of n bytes whose byte i is f[i]: [len, data], data sparse
Buf(f, n) == [len |-> n, data |-> [i \in {j \in 0 .. n - 1 : f[j] # 0} |-> f[i]]]
BufOfSeq(s) ==
    [len |-> Len(s), data |-> [i \in {j - 1 : j \in {k \in DOMAIN s : s[k] # 0}} |-> s[i + 1]]]
ZeroBuf(n) == [len |-> n, data |-> [i \in {} |-> 0]]
U8Buf(v) == BufOfSeq(<<v>>)
U32Buf(v) == BufOfSeq(LE32(v))
BufByte(b, i) == IF i \in DOMAIN b.data THEN b.data[i] ELSE 0
BufU32(b, off) ==
    BufByte(b, off) + 256 * BufByte(b, off + 1) + 65536 * BufByte(b, off + 2)
        + 16777216 * BufByte(b, off + 3)
BufU16(b, off) == BufByte(b, off) + 256 * BufByte(b, off + 1)
\* bytes from .. to-1 of a buffer
SubBuf(b, from, to) ==
    [len |-> to - from,
     data |-> [i \in {j - from : j \in {k \in DOMAIN b.data : k >= from /\ k < to}}
                 |-> b.data[i + from]]]
\* buffer b with the bytes of c at offset off
PutBuf(b, off, c) ==
    [len |-> b.len,
     data |-> [i \in {j \in DOMAIN b.data : j < off \/ j >= off + c.len}
                     \cup {off + j : j \in DOMAIN c.data}
                 |-> IF i >= off /\ i < off + c.len THEN c.data[i - off] ELSE b.data[i]]]

\* the addresses of [addr, addr + n) at which memory m holds a non-zero byte
Held(m, addr, n) ==
    IF n < Cardinality(DOMAIN m) THEN (addr .. addr + n - 1) \cap DOMAIN m
    ELSE DOMAIN m \cap (addr .. addr + n - 1)

\* memory m with the first n bytes of buf stored at addr
Blit(m, addr, buf, n) ==
    LET new == {addr + j : j \in {k \in DOMAIN buf.data : k < n}}
        dead == Held(m, addr, n) \ new
        m1 == IF dead = {} THEN m ELSE [a \in DOMAIN m \ dead |-> m[a]]
    IN  IF new = {} THEN m1 ELSE [a \in new |-> buf.data[a - addr]] @@ m1

\* the n bytes of memory m at addr
Slice(m, addr, n) ==
    [len |-> n, data |-> [i \in {a - addr : a \in Held(m, addr, n)} |-> m[i + addr]]]

----------------------------------------------------------------------------
(* Loops: Step applied until Done, at most n times *)

\* v bound to the parameter of In: a value computed once and used in what follows
With(v, In(_)) == In(v)

\* A single value is bound to x in {f(x) : x \in {v}}, so each part of the loop is
\* computed once, before the next starts.
RECURSIVE IterV(_, _, _, _)
IterV(Step(_), Done(_), s, n) ==
    CASE n <= 0 \/ Done(s) -> s
      [] n = 1 -> Step(s)
      [] n = 2 \/ n = 3 ->
            CHOOSE r \in {IterV(Step, Done, a, n - 1) : a \in {Step(s)}} : TRUE
      [] OTHER ->
            CHOOSE r \in {IterV(Step, Done, c, n - 3 * (n \div 4)) :
                     c \in {IterV(Step, Done, b, n \div 4) :
                     b \in {IterV(Step, Done, a, n \div 4) :
                     a \in {IterV(Step, Done, s, n \div 4)}}}} : TRUE

\* the first k iterations, then the rest in runs IterGrow times as long each
IterGrow == 16
RECURSIVE IterUp(_, _, _, _, _)
IterUp(Step(_), Done(_), s, k, n) ==
    CASE n <= 0 \/ Done(s) -> s
      [] n <= k -> IterV(Step, Done, s, n)
      [] OTHER -> CHOOSE r \in {IterUp(Step, Done, h, IterGrow * k, n - k) :
                           h \in {IterV(Step, Done, s, k)}} : TRUE

\* `while !Done(s) { s = Step(s) }`, which the code ends within n iterations
Iter(Step(_), Done(_), s0, n) == IterUp(Step, Done, s0, 1, n)

----------------------------------------------------------------------------
(* disk.rs: the IO trait on Vec<u8> and Disk *)

\* an operation's outcome: the filesystem after it, Ok or the error, the value
Ret(fs, res, val) == [fs |-> fs, res |-> res, val |-> val]

\* IO::read_lossy: the bytes that exist of [addr, addr + n)
read_lossy(fs, addr, n) == Slice(fs.disk, addr, Max(0, Min(n, fs.len - addr)))

\* IO::read_exact (Disk::read_struct): an error when the device is short
read_exact(fs, addr, n) ==
    With(read_lossy(fs, addr, n), LAMBDA b :
       IF b.len # n THEN [res |-> "DiskError", buf |-> ZeroBuf(n)]
        ELSE [res |-> "Ok", buf |-> b])

\* Disk::read_struct::<u8>
read_u8(fs, addr) ==
    IF addr >= fs.len THEN [res |-> "DiskError", val |-> 0]
    ELSE [res |-> "Ok", val |-> IF addr \in DOMAIN fs.disk THEN fs.disk[addr] ELSE 0]

\* IO::write_lossy: stores the bytes that fit, returns how many
write_lossy(fs, addr, buf) ==
    LET n == Max(0, Min(buf.len, fs.len - addr)) IN
       Ret([fs EXCEPT !.disk = Blit(fs.disk, addr, buf, n)], "Ok", n)

\* IO::write_exact (Disk::write_struct): the bytes that fit are stored all the same
write_exact(fs, addr, buf) ==
    With(write_lossy(fs, addr, buf), LAMBDA w :
       IF w.val # buf.len THEN Ret(w.fs, "DiskError", 0) ELSE Ret(w.fs, "Ok", 0))

----------------------------------------------------------------------------
(* superblock.rs *)

\* the repr(C) image of a Superblock; bytes 28..31 and 82..83 are padding
SuperblockImage(s, p) ==
    BufOfSeq(s.signature \o LE32(s.earliest_free) \o LE32(s.earliest_inode_space)
             \o LE32(s.last_free) \o LE32(s.total_unused) \o LE32(s.total_blocks)
             \o <<p, p, p, p>> \o LE64(s.last_mount) \o LE64(s.last_write)
             \o [i \in 1 .. 32 |-> IF i <= Len(s.name) THEN s.name[i] ELSE 0]
             \o <<s.file_prealloc, s.dir_prealloc, p, p>> \o LE32(s.root_inode))

DivCeil(a, b) == (a + b - 1) \div b

\* Superblock::new
Superblock_new(name, num_blocks, now) ==
    IF Len(name) > 32 THEN [res |-> "NameTooLong", val |-> <<>>]
    ELSE [res |-> "Ok",
          val |-> [signature |-> SUPERBLOCK_SIGNATURE_SFS,
                   earliest_free |-> 2,
                   earliest_inode_space |-> 0,
                   last_free |-> num_blocks - 1,
                   total_unused |-> num_blocks - 1 - DivCeil(num_blocks, BLOCKS_PER_BLOCKARRAY),
                   total_blocks |-> num_blocks,
                   last_mount |-> now,
                   last_write |-> now,
                   name |-> name,
                   file_prealloc |-> 1,
                   dir_prealloc |-> 1,
                   root_inode |-> 0]]

----------------------------------------------------------------------------
(* fs.rs: BlockArrayDescriptor *)

\* BlockArrayDescriptor::get, on the descriptor of segment seg
get(fs, seg, index) ==
    IF index = 0 THEN [res |-> "Ok", val |-> "BlockArrayDescriptor"]
    ELSE
        LET block_index == index \div 8 IN
        LET bitmap_offset == index % 8 IN
        LET u == read_u8(fs, block_index + seg * BLOCKS_PER_BLOCKARRAY) IN
        LET t == read_u8(fs, block_index + seg * BLOCKS_PER_BLOCKARRAY + KIND_BITMAP_OFFSET) IN
           IF u.res # "Ok" THEN [res |-> "DiskError", val |-> "Unused"]
            ELSE IF Bit(u.val, bitmap_offset) = 0 THEN [res |-> "Ok", val |-> "Unused"]
            ELSE IF t.res # "Ok" THEN [res |-> "DiskError", val |-> "Unused"]
            ELSE IF Bit(t.val, bitmap_offset) > 0 THEN [res |-> "Ok", val |-> "InodeBlock"]
            ELSE [res |-> "Ok", val |-> "Allocated"]

\* set that stores the new bytes and so forgets the other bits of the two bytes
set_whole_byte(fs, seg, index, typ0) ==
    IF index >= BLOCKS_PER_BLOCKARRAY THEN Ret(fs, "Ok", 0)
    ELSE
        LET typ == IF index = 0 THEN "BlockArrayDescriptor"
                   ELSE IF typ0 = "BlockArrayDescriptor" THEN "Allocated"
                   ELSE typ0 IN
        LET block_index == index \div 8 + seg * BLOCKS_PER_BLOCKARRAY IN
        LET bitmap_offset == index % 8 IN
        LET usage_bitmap == IF typ # "Unused" THEN SetBit(0, bitmap_offset) ELSE 0 IN
        LET type_bitmap == IF typ = "InodeBlock" THEN SetBit(0, bitmap_offset) ELSE 0 IN
           With(write_exact(fs, block_index, U8Buf(usage_bitmap)), LAMBDA w1 :
               IF w1.res # "Ok" THEN w1
                ELSE write_exact(w1.fs, block_index + KIND_BITMAP_OFFSET, U8Buf(type_bitmap)))

\* BlockArrayDescriptor::set, on the descriptor of segment seg
set(fs, seg, index, typ0) ==
    IF index >= BLOCKS_PER_BLOCKARRAY THEN Ret(fs, "Ok", 0)
    ELSE
        LET typ == IF index = 0 THEN "BlockArrayDescriptor"
                   ELSE IF typ0 = "BlockArrayDescriptor" THEN "Allocated"
                   ELSE typ0 IN
        LET block_index == index \div 8 + seg * BLOCKS_PER_BLOCKARRAY IN
        LET bitmap_offset == index % 8 IN
        LET u == read_u8(fs, block_index) IN
        LET t == read_u8(fs, block_index + KIND_BITMAP_OFFSET) IN
        LET usage_bitmap == IF typ # "Unused" THEN SetBit(u.val, bitmap_offset)
                            ELSE ClearBit(u.val, bitmap_offset) IN
        LET type_bitmap == IF typ = "InodeBlock" THEN SetBit(t.val, bitmap_offset)
                           ELSE ClearBit(t.val, bitmap_offset) IN
           IF u.res # "Ok" \/ t.res # "Ok" THEN Ret(fs, "DiskError", 0)
            ELSE With(write_exact(fs, block_index, U8Buf(usage_bitmap)), LAMBDA w1 :
               IF w1.res # "Ok" THEN w1
                ELSE write_exact(w1.fs, block_index + KIND_BITMAP_OFFSET, U8Buf(type_bitmap)))

\* a descriptor made without marking its own block
BlockArrayDescriptor_create_unmarked(fs, idx) == Ret(fs, "Ok", 0)

\* BlockArrayDescriptor::create
BlockArrayDescriptor_create(fs, idx) == set(fs, idx, 0, "BlockArrayDescriptor")

\* the kind the bitmap reports for block id b (the lookup allocate_block makes)
Kind(fs, b) == get(fs, b \div BLOCKS_PER_BLOCKARRAY, b % BLOCKS_PER_BLOCKARRAY).val

----------------------------------------------------------------------------
(* fs.rs: FileSystem, the block allocator *)

\* FileSystem::pointer
pointer(block_id) ==
    IF block_id % BLOCKS_PER_BLOCKARRAY = 0 THEN [res |-> "InvalidBlock", val |-> 0]
    ELSE [res |-> "Ok", val |-> block_id * BLOCK_SIZE]

\* FileSystem::write_superblock
write_superblock(fs) ==
    With(write_exact(fs, SUPERBLOCK_ADDR, SuperblockImage(fs.sb, fs.pad)), LAMBDA w :
       IF w.res # "Ok" THEN Ret(w.fs, "FailSuperblockWrite", 0) ELSE w)

\* clear_block that leaves the block as it is
clear_block_skipped(fs, blk_id) == Ret(fs, "Ok", 0)

\* FileSystem::clear_block
clear_block(fs, blk_id) ==
    LET p == pointer(blk_id) IN
       IF p.res # "Ok" THEN Ret(fs, p.res, 0)
        ELSE write_exact(fs, p.val, ZeroBuf(BLOCK_SIZE))

\* free_block that leaves the hint earliest_free as it is
free_block_hint_kept(fs, block_id) ==
    IF block_id = 0 THEN Ret(fs, "InvalidBlock", 0)
    ELSE With(set(fs, block_id \div BLOCKS_PER_BLOCKARRAY,
                  block_id % BLOCKS_PER_BLOCKARRAY, "Unused"), LAMBDA s :
           IF s.res # "Ok" THEN s
            ELSE clear_block(s.fs, block_id))

\* FileSystem::free_block
free_block(fs, block_id) ==
    IF block_id = 0 THEN Ret(fs, "InvalidBlock", 0)
    ELSE
        LET lower == fs.sb.earliest_free > block_id IN
        LET fs1 == IF lower THEN [fs EXCEPT !.sb.earliest_free = block_id] ELSE fs IN
        With(IF lower THEN write_superblock(fs1) ELSE Ret(fs1, "Ok", 0), LAMBDA w :
           IF w.res # "Ok" THEN w
            ELSE With(set(w.fs, block_id \div BLOCKS_PER_BLOCKARRAY,
                          block_id % BLOCKS_PER_BLOCKARRAY, "Unused"), LAMBDA s :
               IF s.res # "Ok" THEN s
                ELSE clear_block(s.fs, block_id)))

\* a scan that reports the block just taken as the next free one
ScanUnused_stale(fs, from) == [i |-> from - 1, st |-> "found"]

\* the loop of allocate_block: the first i in from .. total_blocks - 1 that the
\* bitmap reports Unused ("found"), "none", or "err" when a bitmap read fails
ScanUnused(fs, from) ==
    Iter(LAMBDA s :
            IF s.i >= fs.sb.total_blocks THEN [s EXCEPT !.st = "none"]
            ELSE With(get(fs, s.i \div BLOCKS_PER_BLOCKARRAY,
                              s.i % BLOCKS_PER_BLOCKARRAY), LAMBDA g :
                    IF g.res # "Ok" THEN [s EXCEPT !.st = "err"]
                     ELSE IF g.val = "Unused" THEN [s EXCEPT !.st = "found"]
                     ELSE [s EXCEPT !.i = @ + 1]),
         LAMBDA s : s.st # "scan",
         [i |-> from, st |-> "scan"],
         Max(0, fs.sb.total_blocks - from) + 1)

\* allocate_block that does not store the superblock when it finds no free block
allocate_block_unsaved(fs, for_inodes) ==
    LET blk == fs.sb.earliest_free IN
    LET fs1 == [fs EXCEPT !.sb.last_free = IF blk = @ THEN 0 ELSE @,
                          !.sb.earliest_free = 0] IN
    IF blk = 0 THEN Ret(fs, "NoSpace", 0)
    ELSE With(set(fs1, blk \div BLOCKS_PER_BLOCKARRAY, blk % BLOCKS_PER_BLOCKARRAY,
                  IF for_inodes THEN "InodeBlock" ELSE "Allocated"), LAMBDA s :
       IF s.res # "Ok" THEN s
        ELSE With(ScanUnused(s.fs, blk + 1), LAMBDA sc :
           IF sc.st = "err" THEN Ret(s.fs, "DiskError", 0)
            ELSE IF sc.st = "found" THEN
                With(write_superblock(
                        [s.fs EXCEPT !.sb.earliest_free = sc.i,
                                     !.sb.earliest_inode_space =
                                         IF for_inodes THEN blk * INODES_PER_BLOCK ELSE @]),
                     LAMBDA w :
                   IF w.res # "Ok" THEN w
                    ELSE With(clear_block(w.fs, blk), LAMBDA c :
                       IF c.res # "Ok" THEN c
                        ELSE Ret(c.fs, "Ok", blk)))
            ELSE Ret(s.fs, "NoSpace", 0)))

\* FileSystem::allocate_block
allocate_block(fs, for_inodes) ==
    LET blk == fs.sb.earliest_free IN
    LET fs1 == [fs EXCEPT !.sb.last_free = IF blk = @ THEN 0 ELSE @,
                          !.sb.earliest_free = 0] IN
    IF blk = 0 THEN Ret(fs, "NoSpace", 0)
    ELSE With(set(fs1, blk \div BLOCKS_PER_BLOCKARRAY, blk % BLOCKS_PER_BLOCKARRAY,
                  IF for_inodes THEN "InodeBlock" ELSE "Allocated"), LAMBDA s :
       IF s.res # "Ok" THEN s
        ELSE With(ScanUnused(s.fs, blk + 1), LAMBDA sc :
           IF sc.st = "err" THEN Ret(s.fs, "DiskError", 0)
            ELSE IF sc.st = "found" THEN
                With(write_superblock(
                        [s.fs EXCEPT !.sb.earliest_free = sc.i,
                                     !.sb.earliest_inode_space =
                                         IF for_inodes THEN blk * INODES_PER_BLOCK ELSE @]),
                     LAMBDA w :
                   IF w.res # "Ok" THEN w
                    ELSE With(clear_block(w.fs, blk), LAMBDA c :
                       IF c.res # "Ok" THEN c
                        ELSE Ret(c.fs, "Ok", blk)))
            ELSE With(write_superblock(s.fs), LAMBDA wn :
                   IF wn.res # "Ok" THEN wn
                    ELSE Ret(wn.fs, "NoSpace", 0))))

----------------------------------------------------------------------------
(* inode.rs: the repr(C) image of an Inode (128 bytes) *)

INO_TYPE == 0
INO_UID == 2
INO_GID == 4
INO_MTIME == 8
INO_CTIME == 16
INO_HARDLINKS == 24
INO_BLOCK_POINTERS == 28
INO_SINGLY == 68
INO_DOUBLY == 72
INO_META == 76
DIRECT_POINTERS == 10
POINTERS_PER_BLOCK == 1024

TYPE_DIRECTORY == 16384
TYPE_FILE == 32768
ROOT_PERMISSIONS == 509
FILE_PERMISSIONS == 436

\* field accessors on an inode image
hardlinks(ino) == BufU16(ino, INO_HARDLINKS)
block_pointers(ino, i) == BufU32(ino, INO_BLOCK_POINTERS + 4 * i)
singly_indirect_block_pointer(ino) == BufU32(ino, INO_SINGLY)
doubly_indirect_block_pointer(ino) == BufU32(ino, INO_DOUBLY)
meta(ino) == BufU32(ino, INO_META)
\* PermissionsAndType::get_type
get_type(ino) == (BufU16(ino, INO_TYPE) \div 4096) * 4096

U16Buf(v) == BufOfSeq(LE16(v))
U64Buf(v) == BufOfSeq(LE64(v))
set_hardlinks(ino, v) == PutBuf(ino, INO_HARDLINKS, U16Buf(v))
set_block_pointer(ino, i, v) == PutBuf(ino, INO_BLOCK_POINTERS + 4 * i, U32Buf(v))
set_singly(ino, v) == PutBuf(ino, INO_SINGLY, U32Buf(v))
set_doubly(ino, v) == PutBuf(ino, INO_DOUBLY, U32Buf(v))
set_meta(ino, v) == PutBuf(ino, INO_META, U32Buf(v))

\* Inode::create; bytes 6..7 and 26..27 are padding the build leaves as it finds them
Inode_create(type_and_permission, uid, gid, now, links, meta_data, p) ==
    BufOfSeq(LE16(type_and_permission) \o LE16(uid) \o LE16(gid) \o <<p, p>>
             \o LE64(now) \o LE64(now) \o LE16(links) \o <<p, p>>
             \o [i \in 1 .. 4 * DIRECT_POINTERS + 8 |-> 0]
             \o LE32(meta_data)
             \o [i \in 1 .. INODE_SIZE - INO_META - 4 |-> 0])

\* FileSystem::read_inode
read_inode(fs, inode_nbr) == read_exact(fs, inode_nbr * INODE_SIZE, INODE_SIZE)

\* FileSystem::write_inode
write_inode(fs, inode_nbr, ino) == write_exact(fs, inode_nbr * INODE_SIZE, ino)

\* FileSystem::get_inode_physical
get_inode_physical(fs) ==
    LET inode_addr == fs.sb.earliest_inode_space * INODE_SIZE IN
    LET slot(i) == read_exact(fs, inode_addr + i * INODE_SIZE, INODE_SIZE) IN
    With(IF inode_addr = 0 THEN {}
         ELSE {i \in 0 .. INODES_PER_BLOCK - 1 :
                  slot(i).res # "Ok" \/ hardlinks(slot(i).buf) = 0}, LAMBDA stops :
       IF stops # {} THEN
            LET first == CHOOSE i \in stops : \A j \in stops : i <= j IN
            (IF slot(first).res # "Ok" THEN Ret(fs, "DiskError", 0)
             ELSE Ret(fs, "Ok", inode_addr + first * INODE_SIZE))
        ELSE With(allocate_block(fs, TRUE), LAMBDA a :
           IF a.res # "Ok" THEN a
            ELSE Ret(a.fs, pointer(a.val).res, pointer(a.val).val)))

\* FileSystem::create_inode
create_inode(fs, ino) ==
    With(get_inode_physical(fs), LAMBDA g :
       IF g.res # "Ok" THEN g
        ELSE With(write_inode(g.fs, g.val \div INODE_SIZE, ino), LAMBDA w :
           IF w.res # "Ok" THEN w
            ELSE Ret(w.fs, "Ok", g.val \div INODE_SIZE)))

\* FileSystem::create
create(num_blocks, fs_name, now, p, ovf) ==
    LET n == Superblock_new(fs_name, num_blocks, now) IN
    LET fs0 == [disk |-> [a \in {} |-> 0], len |-> num_blocks * BLOCK_SIZE,
                sb |-> n.val, pad |-> p, checked |-> ovf] IN
    LET segs == DivCeil(num_blocks, BLOCKS_PER_BLOCKARRAY) IN
    IF num_blocks < 3 THEN Ret(fs0, "DiskError", 0)
    ELSE IF n.res # "Ok" THEN Ret(fs0, n.res, 0)
    ELSE With(write_exact(fs0, SUPERBLOCK_ADDR, SuperblockImage(n.val, p)), LAMBDA w :
       IF w.res # "Ok" THEN w
        ELSE With(Iter(LAMBDA s :
                        With(BlockArrayDescriptor_create(s.r.fs, s.i), LAMBDA c :
                           IF c.res = "Ok" /\ s.i = 0
                                THEN [i |-> s.i + 1, r |-> set(c.fs, s.i, 1, "Allocated")]
                            ELSE [i |-> s.i + 1, r |-> c]),
                       LAMBDA s : s.r.res # "Ok" \/ s.i >= segs,
                       [i |-> 0, r |-> w], segs).r, LAMBDA d :
           IF d.res # "Ok" THEN d
            ELSE With(create_inode(d.fs, Inode_create(TYPE_DIRECTORY + ROOT_PERMISSIONS,
                                                       0, 0, now, 1, 0, p)), LAMBDA ci :
               IF ci.res # "Ok" THEN ci
                ELSE write_superblock([ci.fs EXCEPT !.sb.root_inode = ci.val]))))

----------------------------------------------------------------------------
(* inode.rs: block pointers *)

\* Option::None of an Option<u32>
NONE == -1

\* an operation on an inode (self): the filesystem and the inode after it
RetI(fs, ino, res, val) == [fs |-> fs, ino |-> ino, res |-> res, val |-> val]

\* Disk::read_struct::<u32>
read_u32(fs, addr) ==
    IF addr + 4 > fs.len THEN [res |-> "DiskError", val |-> 0]
    ELSE [res |-> "Ok",
          val |-> read_u8(fs, addr).val + 256 * read_u8(fs, addr + 1).val
                    + 65536 * read_u8(fs, addr + 2).val
                    + 16777216 * read_u8(fs, addr + 3).val]

\* Inode::get_block_id: the block id at logical position index, or NONE
get_block_id(fs, ino, index) ==
    IF index < DIRECT_POINTERS THEN
        (IF block_pointers(ino, index) = 0 THEN NONE ELSE block_pointers(ino, index))
    ELSE IF index >= 10 /\ index < 1034 THEN
        LET block_ptr == singly_indirect_block_pointer(ino) IN
        With(read_u32(fs, block_ptr + (index - 10) * 4), LAMBDA r :
           IF block_ptr > 0 THEN (IF r.res = "Ok" THEN r.val ELSE NONE) ELSE NONE)
    ELSE IF index >= 1034 /\ index < 1024 * 1024 + 10 THEN
        LET index_l1 == (index - 10) \div 1024 IN
        LET index_l2 == (index - 10) % 1024 IN
        LET block_ptr == singly_indirect_block_pointer(ino) IN
        With(read_u32(fs, block_ptr + index_l1 * 4), LAMBDA a1 :
        With(read_u32(fs, a1.val + index_l2 * 4), LAMBDA a2 :
           IF doubly_indirect_block_pointer(ino) > 0 THEN
                (IF a1.res # "Ok" THEN NONE
                 ELSE IF a1.val = 0 THEN NONE
                 ELSE IF a2.res # "Ok" THEN NONE
                 ELSE IF a2.val = 0 THEN NONE
                 ELSE a2.val)
            ELSE NONE))
    ELSE NONE

\* the first loop of get_next_free_block, `loop { if get_block_id(blk_id) is None
\* { break } blk_id += 1 }`: the least position that does not resolve; one exists,
\* get_block_id has no entry for a position from 1024 * 1024 + 10 on
FirstUnresolved(fs, ino) ==
    CHOOSE blk_id \in 0 .. 1024 * 1024 + 10 :
        /\ get_block_id(fs, ino, blk_id) = NONE
        /\ \A below \in 0 .. blk_id - 1 : get_block_id(fs, ino, below) # NONE

\* get_next_free_block, blk_id < 10: a block for a direct slot
NextFreeDirect(fs, ino, my_inode_addr, blk_id) ==
    With(allocate_block(fs, FALSE), LAMBDA a :
       IF a.res # "Ok" THEN RetI(a.fs, ino, a.res, 0)
        ELSE With(write_inode(a.fs, my_inode_addr,
                              set_block_pointer(ino, blk_id, a.val)), LAMBDA w :
           IF w.res # "Ok"
                THEN RetI(w.fs, set_block_pointer(ino, blk_id, a.val), w.res, 0)
            ELSE RetI(w.fs, set_block_pointer(ino, blk_id, a.val), "Ok", blk_id)))

\* `if self.<pointer> == 0 { self.<pointer> = fs.allocate_block(false)?; write_inode? }`
\* Put stores the block id in the inode
EnsureIndirect(fs, ino, my_inode_addr, present, Put(_, _)) ==
    IF present THEN RetI(fs, ino, "Ok", 0)
    ELSE With(allocate_block(fs, FALSE), LAMBDA a :
       IF a.res # "Ok" THEN RetI(a.fs, ino, a.res, 0)
        ELSE With(write_inode(a.fs, my_inode_addr, Put(ino, a.val)), LAMBDA w :
                RetI(w.fs, Put(ino, a.val), w.res, 0)))

\* `let blk = fs.allocate_block(false)?; write_struct(addr, &blk)?`: val is blk
AllocInto(fs, ino, addr) ==
    With(allocate_block(fs, FALSE), LAMBDA a :
       IF a.res # "Ok" THEN RetI(a.fs, ino, a.res, 0)
        ELSE With(write_exact(a.fs, addr, U32Buf(a.val)), LAMBDA w :
                RetI(w.fs, ino, w.res, a.val)))

\* get_next_free_block, 10 <= blk_id < 1034: a block entered in the singly indirect
\* block, which is allocated first when the inode has none
NextFreeSingly(fs, ino, my_inode_addr, blk_id) ==
    With(EnsureIndirect(fs, ino, my_inode_addr,
                        singly_indirect_block_pointer(ino) # 0, set_singly), LAMBDA h :
       IF h.res # "Ok" THEN h
        ELSE With(AllocInto(h.fs, h.ino,
                            singly_indirect_block_pointer(h.ino) + (blk_id - 10) * 4),
                  LAMBDA b :
                IF b.res # "Ok" THEN RetI(b.fs, b.ino, b.res, 0)
                ELSE RetI(b.fs, b.ino, "Ok", blk_id)))

\* get_next_free_block, 1034 <= blk_id < 1024 * 1024 + 10
NextFreeDoubly(fs, ino, my_inode_addr, blk_id) ==
    With(EnsureIndirect(fs, ino, my_inode_addr,
                        doubly_indirect_block_pointer(ino) # 0, set_doubly), LAMBDA h :
       IF h.res # "Ok" THEN h
        ELSE With(AllocInto(h.fs, h.ino,
                            doubly_indirect_block_pointer(h.ino)
                                + ((blk_id - 10) \div 1024) * 4), LAMBDA s :
           IF s.res # "Ok" THEN RetI(s.fs, s.ino, s.res, 0)
            ELSE With(AllocInto(s.fs, s.ino, s.val + ((blk_id - 10) % 1024) * 4),
                      LAMBDA b :
                    IF b.res # "Ok" THEN RetI(b.fs, b.ino, b.res, 0)
                    ELSE RetI(b.fs, b.ino, "Ok", blk_id))))

\* Inode::get_next_free_block
get_next_free_block(fs, ino, my_inode_addr) ==
    With(FirstUnresolved(fs, ino), LAMBDA blk_id :
       IF blk_id < 10 THEN NextFreeDirect(fs, ino, my_inode_addr, blk_id)
        ELSE IF blk_id >= 10 /\ blk_id < 1024 + 10
            THEN NextFreeSingly(fs, ino, my_inode_addr, blk_id)
        ELSE IF blk_id >= 1024 + 10 /\ blk_id < 1024 * 1024 + 10
            THEN NextFreeDoubly(fs, ino, my_inode_addr, blk_id)
        ELSE RetI(fs, ino, "DiskError", 0))

\* the [u32; 1024] a block-sized buffer holds: entry i
Entry(buf, i) == BufU32(buf, 4 * i)

\* `for ent in block { body }?`: Body(fs, ent) on the entries in order, stopping at
\* the first error; Body returns Ret(..)
ForEntries(fs, buf, Body(_, _)) ==
    Iter(LAMBDA s : With(Body(s.fs, Entry(buf, s.i)), LAMBDA r :
                       [i |-> s.i + 1, fs |-> r.fs, res |-> r.res]),
         LAMBDA s : s.res # "Ok" \/ s.i >= POINTERS_PER_BLOCK,
         [i |-> 0, fs |-> fs, res |-> "Ok"],
         POINTERS_PER_BLOCK)

\* Inode::unallocate_block
RECURSIVE unallocate_block(_, _, _)
unallocate_block(is_double, block_id, fs) ==
    IF pointer(block_id).res # "Ok" THEN Ret(fs, pointer(block_id).res, 0)
    ELSE With(read_exact(fs, pointer(block_id).val, BLOCK_SIZE), LAMBDA block :
       IF block.res # "Ok" THEN Ret(fs, block.res, 0)
        ELSE With(ForEntries(fs, block.buf,
                    LAMBDA f, ent :
                        IF ent = 0 THEN Ret(f, "Ok", 0)
                        ELSE With(IF is_double THEN unallocate_block(FALSE, ent, f)
                                  ELSE Ret(f, "Ok", 0), LAMBDA u :
                                IF u.res # "Ok" THEN u ELSE free_block(u.fs, ent))),
                  LAMBDA l : Ret(l.fs, l.res, 0)))

----------------------------------------------------------------------------
(* inode.rs: resize, write, read, delete *)

\* a u32 counter as two 16-bit limbs <<hi, lo>>
Limbs(v) == <<v \div U16, v % U16>>
IsZero(c) == c[1] = 0 /\ c[2] = 0
\* c - 1 modulo 2^32
WrappingDec(c) ==
    IF c[2] > 0 THEN <<c[1], c[2] - 1>>
    ELSE IF c[1] > 0 THEN <<c[1] - 1, U16 - 1>>
    ELSE <<U16 - 1, U16 - 1>>

\* the loop of resize_self; st is "loop", "done", or the error that ended it
\* (`blocks_required -= 1` at 0 panics with overflow checks on, wraps without)
ResizeLoop(fs, ino, to, my_inode_addr) ==
    Iter(LAMBDA s :
            With(IF get_block_id(s.fs, s.ino, s.cur_block) = NONE
                     THEN get_next_free_block(s.fs, s.ino, my_inode_addr)
                     ELSE RetI(s.fs, s.ino, "Ok", 0), LAMBDA n :
               IF n.res # "Ok"
                    THEN [s EXCEPT !.fs = n.fs, !.ino = n.ino, !.st = n.res]
                ELSE IF IsZero(s.blocks_required) /\ fs.checked
                    THEN [s EXCEPT !.fs = n.fs, !.ino = n.ino, !.st = "Panic"]
                ELSE [fs |-> n.fs, ino |-> n.ino,
                      blocks_required |-> WrappingDec(s.blocks_required),
                      cur_block |-> s.cur_block + 1,
                      st |-> IF IsZero(WrappingDec(s.blocks_required))
                             THEN "done" ELSE "loop"]),
         LAMBDA s : s.st # "loop",
         [fs |-> fs, ino |-> ino, blocks_required |-> Limbs(to), cur_block |-> 0,
          st |-> "loop"],
         2 * 1024 * 1024)

\* Inode::resize_self
resize_self(fs, ino, to, my_inode_addr) ==
    With(ResizeLoop(fs, ino, to, my_inode_addr), LAMBDA l :
       IF l.st # "done" THEN RetI(l.fs, l.ino, l.st, 0)
        ELSE
        \* free the direct slots from cur_block on
        With(Iter(LAMBDA s :
                    LET ptr == block_pointers(s.ino, s.i) IN
                       IF ptr = 0 THEN [s EXCEPT !.i = @ + 1]
                        ELSE With(free_block(s.fs, ptr), LAMBDA f :
                           IF f.res # "Ok" THEN [s EXCEPT !.fs = f.fs, !.res = f.res]
                            ELSE [i |-> s.i + 1, fs |-> f.fs,
                                  ino |-> set_block_pointer(s.ino, s.i, 0), res |-> "Ok"]),
                  LAMBDA s : s.res # "Ok" \/ s.i >= DIRECT_POINTERS,
                  [i |-> l.cur_block, fs |-> l.fs, ino |-> l.ino, res |-> "Ok"],
                  DIRECT_POINTERS), LAMBDA d :
           IF d.res # "Ok" THEN RetI(d.fs, d.ino, d.res, 0)
            ELSE
            With(IF singly_indirect_block_pointer(d.ino) # 0 /\ l.cur_block >= 10
                 THEN unallocate_block(FALSE, singly_indirect_block_pointer(d.ino), d.fs)
                 ELSE Ret(d.fs, "Ok", 0), LAMBDA u1 :
               IF u1.res # "Ok" THEN RetI(u1.fs, d.ino, u1.res, 0)
                ELSE
                With(IF doubly_indirect_block_pointer(d.ino) # 0
                            /\ l.cur_block >= 1024 + 10
                     THEN unallocate_block(TRUE, doubly_indirect_block_pointer(d.ino), u1.fs)
                     ELSE Ret(u1.fs, "Ok", 0), LAMBDA u2 :
                   IF u2.res # "Ok" THEN RetI(u2.fs, d.ino, u2.res, 0)
                    ELSE With(write_inode(u2.fs, my_inode_addr, d.ino), LAMBDA w :
                            RetI(w.fs, d.ino, w.res, 0))))))

\* Inode::file_write; `&buf[start..end]` panics when end > buf.len()
file_write(fs, ino, buf, my_inode_addr) ==
    LET blocks == DivCeil(buf.len, BLOCK_SIZE) IN
    IF get_type(ino) # TYPE_FILE THEN RetI(fs, ino, "NoSpace", 0)
    ELSE With(resize_self(fs, ino, blocks, my_inode_addr), LAMBDA r :
       IF r.res # "Ok" THEN r
        ELSE
        With(Iter(LAMBDA s :
                    With(get_block_id(s.fs, r.ino, s.i), LAMBDA block :
                    LET off == pointer(block) IN
                    LET start == s.i * BLOCK_SIZE IN
                    LET end == start + Min(s.i * BLOCK_SIZE + 4096, buf.len) IN
                       IF block = NONE THEN [s EXCEPT !.res = "NoEntry"]
                        ELSE IF off.res # "Ok" THEN [s EXCEPT !.res = off.res]
                        ELSE IF end > buf.len THEN [s EXCEPT !.res = "Panic"]
                        ELSE With(write_exact(s.fs, off.val, SubBuf(buf, start, end)),
                                  LAMBDA w : [i |-> s.i + 1, fs |-> w.fs, res |-> w.res])),
                  LAMBDA s : s.res # "Ok" \/ s.i >= blocks,
                  [i |-> 0, fs |-> r.fs, res |-> "Ok"],
                  blocks), LAMBDA l :
           IF l.res # "Ok" THEN RetI(l.fs, r.ino, l.res, 0)
            ELSE With(write_inode(l.fs, my_inode_addr,
                                  set_meta(r.ino, buf.len % BLOCK_SIZE)), LAMBDA w :
                    RetI(w.fs, set_meta(r.ino, buf.len % BLOCK_SIZE), w.res, 0))))

\* Inode::_read: Ok with the bytes read_lossy got, or NoEntry
Inode__read(fs, ino, off, n) ==
    LET block_id == off \div 4096 IN
    LET block_offset == off % 4096 IN
    With(get_block_id(fs, ino, block_id), LAMBDA b :
       IF b = NONE THEN [res |-> "NoEntry", buf |-> ZeroBuf(0)]
        ELSE [res |-> "Ok", buf |-> read_lossy(fs, b * 4096 + block_offset, n)])

\* Inode::read into a zeroed buffer of n bytes: [res, val (the count), buf]
Inode_read(fs, ino, off0, n) ==
    With(Iter(LAMBDA s :
                    LET length == Min(4096 - (s.off % 4096), s.left_to_read) IN
                    With(Inode__read(fs, ino, s.off, length), LAMBDA r :
                       IF length = 0 THEN [s EXCEPT !.st = "Ok"]
                        ELSE IF r.res # "Ok" THEN [s EXCEPT !.st = r.res]
                        ELSE IF r.buf.len = 0 THEN [s EXCEPT !.st = "Ok"]
                        ELSE [off |-> s.off + length,
                              read_already |-> s.read_already + length,
                              left_to_read |-> s.left_to_read - length,
                              buf |-> PutBuf(s.buf, s.read_already, r.buf),
                              st |-> "loop"]),
                  LAMBDA s : s.st # "loop",
                  [off |-> off0, read_already |-> 0, left_to_read |-> n,
                   buf |-> ZeroBuf(n), st |-> "loop"],
                  n + 2), LAMBDA l :
       [res |-> l.st, val |-> l.read_already, buf |-> l.buf])

\* Inode::read_exact
Inode_read_exact(fs, ino, off, n) ==
    With(Inode_read(fs, ino, off, n), LAMBDA r :
       IF r.res # "Ok" THEN r
        ELSE IF r.val # n THEN [r EXCEPT !.res = "NoSpace"]
        ELSE r)

\* Inode::read_struct::<T>, T of n bytes
Inode_read_struct(fs, ino, addr, n) ==
    With(Inode_read(fs, ino, addr, n), LAMBDA r :
       IF r.res # "Ok" THEN r
        ELSE IF r.val # n THEN [r EXCEPT !.res = "DiskError"]
        ELSE r)

\* delete: `for ptr in self.block_pointers { if ptr != 0 { free_block(ptr)? } }`
DeleteDirect(fs, ino) ==
    With(Iter(LAMBDA s :
                LET ptr == block_pointers(ino, s.i) IN
                   IF ptr = 0 THEN [s EXCEPT !.i = @ + 1]
                    ELSE With(free_block(s.fs, ptr), LAMBDA f :
                            [i |-> s.i + 1, fs |-> f.fs, res |-> f.res]),
              LAMBDA s : s.res # "Ok" \/ s.i >= DIRECT_POINTERS,
              [i |-> 0, fs |-> fs, res |-> "Ok"],
              DIRECT_POINTERS), LAMBDA d : Ret(d.fs, d.res, 0))

\* delete: `if let Ok(singly) = pointer(self.singly..).and_then(read) { .. }`
DeleteSingly(fs, ino) ==
    LET sptr == singly_indirect_block_pointer(ino) IN
    IF pointer(sptr).res # "Ok" THEN Ret(fs, "Ok", 0)
    ELSE With(read_exact(fs, pointer(sptr).val, BLOCK_SIZE), LAMBDA b1 :
       IF b1.res # "Ok" THEN Ret(fs, "Ok", 0)
        ELSE With(ForEntries(fs, b1.buf,
                    LAMBDA f, e : IF e # 0 THEN free_block(f, e) ELSE Ret(f, "Ok", 0)),
                  LAMBDA l1 :
               IF l1.res # "Ok" THEN Ret(l1.fs, l1.res, 0)
                ELSE free_block(l1.fs, sptr)))

\* delete: `if let Ok(doubly) = pointer(self.singly..).and_then(read) { .. }`, which
\* reads the singly indirect block again and ends with free_block(self.doubly..)
DeleteDoubly(fs, ino) ==
    LET sptr == singly_indirect_block_pointer(ino) IN
    IF pointer(sptr).res # "Ok" THEN Ret(fs, "Ok", 0)
    ELSE With(read_exact(fs, pointer(sptr).val, BLOCK_SIZE), LAMBDA b2 :
       IF b2.res # "Ok" THEN Ret(fs, "Ok", 0)
        ELSE With(ForEntries(fs, b2.buf,
                    LAMBDA f, e :
                        IF pointer(e).res # "Ok" THEN Ret(f, "Ok", 0)
                        ELSE With(read_exact(f, pointer(e).val, BLOCK_SIZE), LAMBDA be :
                           IF be.res # "Ok" THEN Ret(f, "Ok", 0)
                            ELSE With(ForEntries(f, be.buf,
                                                 LAMBDA g, x : free_block(g, x)),
                                      LAMBDA le :
                                   IF le.res # "Ok" THEN Ret(le.fs, le.res, 0)
                                    ELSE free_block(le.fs, e)))),
                  LAMBDA l2 :
               IF l2.res # "Ok" THEN Ret(l2.fs, l2.res, 0)
                ELSE free_block(l2.fs, doubly_indirect_block_pointer(ino))))

\* delete: the inode's block is freed when none of its inodes has a hardlink left
DeleteInodeBlock(fs, my_inode_addr) ==
    LET inode_blk_root_addr == my_inode_addr \div INODES_PER_BLOCK IN
    LET pb == pointer(inode_blk_root_addr) IN
    IF pb.res # "Ok" THEN Ret(fs, "Ok", 0)
    ELSE With(read_exact(fs, pb.val, BLOCK_SIZE), LAMBDA inodes :
       IF inodes.res # "Ok" THEN Ret(fs, inodes.res, 0)
        ELSE IF \E i \in 0 .. INODES_PER_BLOCK - 1 :
                    BufU16(inodes.buf, i * INODE_SIZE + INO_HARDLINKS) # 0
            THEN Ret(fs, "Ok", 0)
        ELSE With(free_block(fs, inode_blk_root_addr), LAMBDA fb :
           IF fb.res # "Ok" THEN fb
            ELSE IF fb.fs.sb.earliest_inode_space # inode_blk_root_addr
                THEN Ret(fb.fs, "Ok", 0)
            ELSE write_superblock([fb.fs EXCEPT !.sb.earliest_inode_space = 0])))

\* delete that frees the inode's blocks also while hardlinks remain
delete_always_frees(fs, ino, my_inode_addr) ==
    LET h == IF hardlinks(ino) = 0 THEN U16 - 1 ELSE hardlinks(ino) - 1 IN
    LET ino1 == set_hardlinks(ino, h) IN
    LET ino2 == PutBuf(ino1, INO_BLOCK_POINTERS, ZeroBuf(4 * DIRECT_POINTERS + 8)) IN
    IF hardlinks(ino) = 0 /\ fs.checked THEN RetI(fs, ino, "Panic", 0)
    ELSE With(write_inode(fs, my_inode_addr, ino1), LAMBDA w1 :
       IF w1.res # "Ok" THEN RetI(w1.fs, ino1, w1.res, 0)
        ELSE With(DeleteDirect(w1.fs, ino1), LAMBDA d :
           IF d.res # "Ok" THEN RetI(d.fs, ino1, d.res, 0)
            ELSE With(write_inode(d.fs, my_inode_addr, ino2), LAMBDA w2 :
                    RetI(w2.fs, ino2, w2.res, 0))))

\* Inode::delete; `self.hardlinks -= 1` at 0 panics with overflow checks on
delete(fs, ino, my_inode_addr) ==
    LET h == IF hardlinks(ino) = 0 THEN U16 - 1 ELSE hardlinks(ino) - 1 IN
    LET ino1 == set_hardlinks(ino, h) IN
    LET ino2 == PutBuf(ino1, INO_BLOCK_POINTERS, ZeroBuf(4 * DIRECT_POINTERS + 8)) IN
    IF hardlinks(ino) = 0 /\ fs.checked THEN RetI(fs, ino, "Panic", 0)
    ELSE With(write_inode(fs, my_inode_addr, ino1), LAMBDA w1 :
       IF w1.res # "Ok" THEN RetI(w1.fs, ino1, w1.res, 0)
        ELSE IF h > 0 THEN RetI(w1.fs, ino1, "Ok", 0)
        ELSE With(DeleteDirect(w1.fs, ino1), LAMBDA d :
           IF d.res # "Ok" THEN RetI(d.fs, ino1, d.res, 0)
            ELSE With(DeleteSingly(d.fs, ino1), LAMBDA f1 :
               IF f1.res # "Ok" THEN RetI(f1.fs, ino1, f1.res, 0)
                ELSE With(DeleteDoubly(f1.fs, ino1), LAMBDA f2 :
                   IF f2.res # "Ok" THEN RetI(f2.fs, ino1, f2.res, 0)
                    ELSE With(write_inode(f2.fs, my_inode_addr, ino2), LAMBDA w2 :
                       IF w2.res # "Ok" THEN RetI(w2.fs, ino2, w2.res, 0)
                        ELSE With(DeleteInodeBlock(w2.fs, my_inode_addr), LAMBDA b :
                                RetI(b.fs, ino2, b.res, 0)))))))

----------------------------------------------------------------------------
(* directory.rs and the directory side of inode.rs *)

DIRENTRY_STRUCT_SIZE == 264
DIRENTRY_STRUCT_INODE == 4
DIR_BLOCK_CUTOFF == 3796

\* DirEntry::create that refuses only names longer than 255 bytes
DirEntry_create_lenient(inode, name) ==
    IF Len(name) > DIRENTRY_NAME_LENGTH \/ name = <<>>
        THEN [res |-> "NameTooLong", val |-> [name_size |-> 0, inode |-> 0, name |-> <<>>]]
    ELSE [res |-> "Ok",
          val |-> [name_size |-> Len(name) % 256, inode |-> inode, name |-> name]]

\* DirEntry::create: [res, val], val the entry [name_size, inode, name]
DirEntry_create(inode, name) ==
    IF Len(name) >= DIRENTRY_NAME_LENGTH \/ name = <<>>
        THEN [res |-> "NameTooLong", val |-> [name_size |-> 0, inode |-> 0, name |-> <<>>]]
    ELSE [res |-> "Ok",
          val |-> [name_size |-> Len(name) % 256, inode |-> inode, name |-> name]]

\* DirEntry::is_empty
is_empty(e) == e.inode = 0 \/ e.name_size = 0

\* DirEntry::get_size
get_size(e) == 5 + e.name_size

\* DirEntry::write_to_disk: name_size, inode and name packed at addr
write_to_disk(fs, e, addr) ==
    With(write_exact(fs, addr, U8Buf(e.name_size)), LAMBDA w1 :
    With(write_exact(w1.fs, addr + 1, U32Buf(e.inode)), LAMBDA w2 :
    With(write_exact(w2.fs, addr + 5, BufOfSeq(SubSeq(e.name, 1, e.name_size))), LAMBDA w3 :
       IF w1.res # "Ok" THEN w1
        ELSE IF w2.res # "Ok" THEN w2
        ELSE w3)))

\* Disk::read_struct::<DirEntry>: the repr(C) struct copied from addr, whose inode
\* field is at byte 4; only name_size and inode are used
read_struct_DirEntry(fs, addr) ==
    IF addr + DIRENTRY_STRUCT_SIZE > fs.len
        THEN [res |-> "DiskError", val |-> [name_size |-> 0, inode |-> 0]]
    ELSE [res |-> "Ok",
          val |-> [name_size |-> read_u8(fs, addr).val,
                   inode |-> read_u32(fs, addr + DIRENTRY_STRUCT_INODE).val]]

\* DirEntry::read_from_disk, through the directory's inode
read_from_disk(fs, ino, addr) ==
    With(Inode_read_exact(fs, ino, addr, 1), LAMBDA v :
       IF v.res # "Ok" THEN [res |-> v.res, val |-> <<>>]
        ELSE With(Inode_read_struct(fs, ino, addr + 1, 4), LAMBDA i :
           IF i.res # "Ok" THEN [res |-> i.res, val |-> <<>>]
            ELSE
            LET name_size == BufByte(v.buf, 0) IN
            With(IF name_size # 0 THEN Inode_read_exact(fs, ino, addr + 5, name_size)
                 ELSE [res |-> "Ok", val |-> 0, buf |-> ZeroBuf(0)], LAMBDA n :
               IF n.res # "Ok" THEN [res |-> n.res, val |-> <<>>]
                ELSE [res |-> "Ok",
                      val |-> [name_size |-> name_size, inode |-> BufU32(i.buf, 0),
                               name |-> [k \in 1 .. name_size |-> BufByte(n.buf, k - 1)]]])))

\* Inode::get_next_free_dir_entry_slot without the `off >= 3796` step to the next
\* block
get_next_free_dir_entry_slot_one_block(fs, ino, my_inode_addr) ==
    With(Iter(LAMBDA s :
                With(get_block_id(s.fs, s.ino, s.blk_id), LAMBDA block :
                   IF block = NONE THEN
                        With(get_next_free_block(s.fs, s.ino, my_inode_addr), LAMBDA n :
                           IF n.res # "Ok"
                             THEN [s EXCEPT !.fs = n.fs, !.ino = n.ino, !.st = n.res]
                             ELSE [s EXCEPT !.fs = n.fs, !.ino = n.ino, !.blk_id = n.val])
                    ELSE
                    With(read_struct_DirEntry(s.fs, block * BLOCK_SIZE + s.off), LAMBDA e :
                       IF e.res # "Ok" THEN [s EXCEPT !.st = e.res]
                        ELSE IF e.val.inode = 0 \/ is_empty(e.val) THEN [s EXCEPT !.st = "Ok"]
                        ELSE [s EXCEPT !.off = @ + get_size(e.val), !.slot_id = @ + 1])),
              LAMBDA s : s.st # "loop",
              [fs |-> fs, ino |-> ino, blk_id |-> 0, off |-> 0, slot_id |-> 0,
               st |-> "loop"],
              2 * 1024 * 1024), LAMBDA l :
       RetI(l.fs, l.ino, l.st, <<l.blk_id, l.off, l.slot_id>>))

\* Inode::get_next_free_dir_entry_slot: val is <<blk_id, off, slot_id>>
get_next_free_dir_entry_slot(fs, ino, my_inode_addr) ==
    With(Iter(LAMBDA s :
                With(get_block_id(s.fs, s.ino, s.blk_id), LAMBDA block :
                   IF block = NONE THEN
                        With(get_next_free_block(s.fs, s.ino, my_inode_addr), LAMBDA n :
                           IF n.res # "Ok"
                             THEN [s EXCEPT !.fs = n.fs, !.ino = n.ino, !.st = n.res]
                             ELSE [s EXCEPT !.fs = n.fs, !.ino = n.ino, !.blk_id = n.val])
                    ELSE
                    With(read_struct_DirEntry(s.fs, block * BLOCK_SIZE + s.off), LAMBDA e :
                       IF e.res # "Ok" THEN [s EXCEPT !.st = e.res]
                        ELSE IF e.val.inode = 0 \/ is_empty(e.val) THEN [s EXCEPT !.st = "Ok"]
                        ELSE IF s.off + get_size(e.val) >= DIR_BLOCK_CUTOFF
                            THEN [s EXCEPT !.blk_id = @ + 1, !.off = 0, !.slot_id = @ + 1]
                        ELSE [s EXCEPT !.off = @ + get_size(e.val), !.slot_id = @ + 1])),
              LAMBDA s : s.st # "loop",
              [fs |-> fs, ino |-> ino, blk_id |-> 0, off |-> 0, slot_id |-> 0,
               st |-> "loop"],
              2 * 1024 * 1024), LAMBDA l :
       RetI(l.fs, l.ino, l.st, <<l.blk_id, l.off, l.slot_id>>))

\* Inode::get_dir_entry_by_nbr: val is <<blk_id, off, slot_id>>
get_dir_entry_by_nbr(fs, ino, nbr) ==
    With(Iter(LAMBDA s :
                With(get_block_id(fs, ino, s.blk_id), LAMBDA block :
                   IF block = NONE THEN [s EXCEPT !.st = "NoEntry"]
                    ELSE
                    With(read_struct_DirEntry(fs, block * BLOCK_SIZE + s.off), LAMBDA e :
                       IF e.res # "Ok" THEN [s EXCEPT !.st = e.res]
                        ELSE IF s.slot_id = nbr THEN [s EXCEPT !.st = "Ok"]
                        ELSE IF s.off + get_size(e.val) >= DIR_BLOCK_CUTOFF
                            THEN [s EXCEPT !.blk_id = @ + 1, !.off = 0, !.slot_id = @ + 1]
                        ELSE [s EXCEPT !.off = @ + get_size(e.val), !.slot_id = @ + 1])),
              LAMBDA s : s.st # "loop",
              [blk_id |-> 0, off |-> 0, slot_id |-> 0, st |-> "loop"],
              2 * 1024 * 1024), LAMBDA l :
       RetI(fs, ino, l.st, <<l.blk_id, l.off, l.slot_id>>))

\* Inode::write_dir_entry; entry_nbr is NONE to append
write_dir_entry(fs, ino, dir_entry, entry_nbr, my_inode_addr) ==
    IF get_type(ino) # TYPE_DIRECTORY THEN RetI(fs, ino, "NoEntry", 0)
    ELSE With(IF entry_nbr # NONE THEN get_dir_entry_by_nbr(fs, ino, entry_nbr)
              ELSE get_next_free_dir_entry_slot(fs, ino, my_inode_addr), LAMBDA g :
       IF g.res # "Ok" THEN RetI(g.fs, g.ino, g.res, 0)
        ELSE With(get_block_id(g.fs, g.ino, g.val[1]), LAMBDA addr :
           IF addr = NONE THEN RetI(g.fs, g.ino, "NoEntry", 0)
            ELSE With(write_to_disk(g.fs, dir_entry, addr * BLOCK_SIZE + g.val[2]),
                      LAMBDA w :
                   IF w.res # "Ok" THEN RetI(w.fs, g.ino, w.res, 0)
                    ELSE RetI(w.fs, g.ino, "Ok", g.val[3]))))

\* FileSystem::link_to_inode; `node.hardlinks += 1` at 65535 panics or wraps
link_to_inode(fs, parent_nbr, child_nbr, name) ==
    With(read_inode(fs, child_nbr), LAMBDA c :
    LET over == hardlinks(c.buf) = U16 - 1 IN
    LET c1 == set_hardlinks(c.buf, IF over THEN 0 ELSE hardlinks(c.buf) + 1) IN
    LET e == DirEntry_create(child_nbr, name) IN
       IF c.res # "Ok" THEN Ret(fs, c.res, 0)
        ELSE IF over /\ fs.checked THEN Ret(fs, "Panic", 0)
        ELSE With(write_inode(fs, child_nbr, c1), LAMBDA w :
           IF w.res # "Ok" THEN w
            ELSE With(read_inode(w.fs, parent_nbr), LAMBDA node :
               IF node.res # "Ok" THEN Ret(w.fs, node.res, 0)
                ELSE IF e.res # "Ok" THEN Ret(w.fs, e.res, 0)
                ELSE With(write_dir_entry(w.fs, node.buf, e.val, NONE, parent_nbr),
                          LAMBDA d :
                       IF d.res # "Ok" THEN Ret(d.fs, d.res, 0)
                        ELSE Ret(d.fs, "Ok", child_nbr)))))

\* FileSystem::create_dir_entry
create_dir_entry(fs, parent_nbr, child, name) ==
    With(create_inode(fs, set_hardlinks(child, 0)), LAMBDA c :
       IF c.res # "Ok" THEN c
        ELSE link_to_inode(c.fs, parent_nbr, c.val, name))

\* DirectoryIterator: new, then next() until it returns None; the entries it yields.
\* One step is one call of next(), the call it makes on itself for an empty entry
\* included as the following step.
DirectoryIterator(fs, ino) ==
    Iter(LAMBDA s :
            With(read_from_disk(fs, ino, s.next_blk * BLOCK_SIZE + s.next_off), LAMBDA r :
            LET Advance(t) ==
                    IF t.next_off + get_size(r.val) + DIRENTRY_STRUCT_SIZE >= BLOCK_SIZE
                    THEN [t EXCEPT !.next_off = 0, !.next_blk = @ + 1]
                    ELSE [t EXCEPT !.next_off = @ + get_size(r.val)] IN
               IF r.res # "Ok" THEN [s EXCEPT !.done = TRUE]
                ELSE IF is_empty(r.val) THEN Advance(s)
                ELSE [Advance(Advance(s)) EXCEPT !.items = Append(@, r.val)]),
         LAMBDA s : s.done,
         [next_off |-> 0, next_blk |-> 0, items |-> <<>>, done |-> FALSE],
         2 * 1024 * 1024).items

----------------------------------------------------------------------------
(* The state machine *)

\* the FileSystem value the variables hold
FS == [disk |-> disk, len |-> disk_len, sb |-> sb, pad |-> pad, checked |-> checked]

\* the variables take the filesystem an operation left
Commit(fs) ==
    /\ disk' = fs.disk
    /\ sb' = fs.sb
    /\ UNCHANGED <<disk_len, pad, checked>>

Call(op, arg, res, val) == [op |-> op, arg |-> arg, res |-> res, val |-> val]

FsName == <<77, 121>>
PadValues == {0, 170}

\* FileSystem::create(n, name) returned Ok(fs), for a device of one of the sizes
InitWith(Sizes) ==
    \E n \in Sizes, p \in PadValues, c \in BOOLEAN :
    \E r \in {create(n, FsName, ClockSecs, p, c)} :
        /\ r.res = "Ok"
        /\ disk = r.fs.disk
        /\ disk_len = r.fs.len
        /\ sb = r.fs.sb
        /\ pad = p
        /\ checked = c
        /\ held = {}
        /\ written = {}
        /\ nodes = <<>>
        /\ last = Call("create", n, "Ok", r.fs.sb.root_inode)
        /\ out = <<>>
        /\ nops = 0

Init == InitWith(0 .. MaxBlocks)

\* a panic unwinds main: no call follows it
Running == last.res # "Panic"

\* fs.allocate_block(for_inodes)
AllocateBlock ==
    /\ Running
    /\ nops < MaxOps
    /\ \E for_inodes \in BOOLEAN :
       \E r \in {allocate_block(FS, for_inodes)} :
        /\ Commit(r.fs)
        /\ held' = IF r.res = "Ok" THEN held \cup {r.val} ELSE held
        /\ last' = Call("allocate_block", IF for_inodes THEN 1 ELSE 0, r.res, r.val)
        /\ nops' = nops + 1
        /\ UNCHANGED <<written, nodes, out>>

Free(b) ==
    /\ Running
    /\ nops < MaxOps
    /\ \E r \in {free_block(FS, b)} :
        /\ Commit(r.fs)
        /\ held' = held \ {b}
        /\ last' = Call("free_block", b, r.res, 0)
        /\ nops' = nops + 1
        /\ UNCHANGED <<written, nodes, out>>

\* fs.free_block(b) on a block the caller got from allocate_block and still holds
FreeHeld == \E b \in held : Free(b)

\* fs.free_block(b) with any argument
FreeArgs == (0 .. MaxBlocks) \cup {BLOCKS_PER_BLOCKARRAY}
FreeAny == \E b \in FreeArgs : Free(b)

\* the caller fills a block it holds: fs.get_disk().write_exact(pointer(b), ..)
DataBlock == [len |-> BLOCK_SIZE, data |-> [i \in {0, BLOCK_SIZE - 1} |-> 255]]
WriteBlock ==
    /\ Running
    /\ nops < MaxOps
    /\ \E b \in held :
       \E r \in {write_exact(FS, pointer(b).val, DataBlock)} :
        /\ pointer(b).res = "Ok"
        /\ Commit(r.fs)
        /\ last' = Call("write_block", b, r.res, 0)
        /\ nops' = nops + 1
        /\ written' = written \cup {b}
        /\ UNCHANGED <<held, nodes, out>>

----------------------------------------------------------------------------
(* Files and directories, driven as main.rs drives them *)

\* the blocks the bitmap reports Unused
UnusedBlocks(fs) == {b \in 0 .. fs.sb.total_blocks - 1 : Kind(fs, b) = "Unused"}

Names == {<<97>>, <<98, 99>>}
FileLens == {0, 100, BLOCK_SIZE, BLOCK_SIZE + 904}

\* the buffer of length n the caller writes: non-zero at every FileMark-th byte
\* and at its last byte
FileMark == 997
FileData(n) ==
    [len |-> n,
     data |-> [i \in {j \in 0 .. n - 1 : j % FileMark = 0 \/ j = n - 1} |-> 1 + (i % 251)]]

\* Inode::create(File, user_rw | group_rw | OtherRead, 0, 0, 0, 0, 0) of main.rs
NewFile == Inode_create(TYPE_FILE + FILE_PERMISSIONS, 0, 0, 0, 0, 0, pad)

\* fs.create_dir_entry(fs.superblock.root_inode, Inode::create(..), name)
CreateDirEntry ==
    /\ Running
    /\ nops < MaxFileOps
    /\ \E name \in Names \ {nodes[i].name : i \in 1 .. Len(nodes)} :
       \E child \in {NewFile} :
       \E r \in {create_dir_entry(FS, sb.root_inode, child, name)} :
        /\ Commit(r.fs)
        /\ nodes' = Append(nodes, [name |-> name, res |-> r.res, nbr |-> r.val,
                                   del |-> "no", len |-> NONE, wres |-> "no"])
        /\ last' = Call("create_dir_entry", name, r.res, r.val)
        /\ nops' = nops + 1
        /\ UNCHANGED <<held, written, out>>

\* the blocks an inode refers to: its direct pointers, its indirect blocks and
\* what its logical positions resolve to
Refs(fs, ino) ==
    ({block_pointers(ino, i) : i \in 0 .. DIRECT_POINTERS - 1}
     \cup {singly_indirect_block_pointer(ino), doubly_indirect_block_pointer(ino)}
     \cup {get_block_id(fs, ino, k) : k \in 0 .. FirstUnresolved(fs, ino) - 1}) \ {0}

\* the nodes create_dir_entry returned: nodes[i].nbr is an inode number
Created == {i \in 1 .. Len(nodes) : nodes[i].res = "Ok"}

\* fs.read_inode(node).unwrap().delete(node, &mut fs)
Delete ==
    /\ Running
    /\ nops < MaxFileOps
    /\ \E i \in Created :
       \E ino \in {read_inode(FS, nodes[i].nbr)} :
       \E r \in {delete(FS, ino.buf, nodes[i].nbr)} :
        /\ ino.res = "Ok"
        /\ Commit(r.fs)
        /\ nodes' = [nodes EXCEPT ![i].del = r.res]
        /\ last' = Call("delete", nodes[i].nbr, r.res,
                        [links |-> hardlinks(ino.buf), refs |-> Refs(FS, ino.buf)])
        /\ nops' = nops + 1
        /\ UNCHANGED <<held, written, out>>

\* for dir_entry in DirectoryIterator::new(fs.read_inode(root), &mut fs)
ListDir ==
    /\ Running
    /\ nops < MaxFileOps
    /\ \E node \in {read_inode(FS, sb.root_inode)} :
        /\ node.res = "Ok"
        /\ out' = DirectoryIterator(FS, node.buf)
        /\ last' = Call("list", sb.root_inode, "Ok", 0)
        /\ nops' = nops + 1
        /\ UNCHANGED <<disk, disk_len, sb, pad, checked, held, written, nodes>>

\* fs.read_inode(node).file_write(&buf, &mut fs, node) with a buffer of length n
FileWrite ==
    /\ Running
    /\ nops < MaxFileOps
    /\ \E i \in Created, n \in FileLens :
       \E ino \in {read_inode(FS, nodes[i].nbr)} :
       \E buf \in {FileData(n)} :
       \E r \in {file_write(FS, ino.buf, buf, nodes[i].nbr)} :
        /\ ino.res = "Ok"
        /\ Commit(r.fs)
        /\ nodes' = [nodes EXCEPT ![i].len = n, ![i].wres = r.res]
        /\ last' = Call("file_write", n, r.res,
                        [node |-> i, free |-> Cardinality(UnusedBlocks(FS))])
        /\ nops' = nops + 1
        /\ UNCHANGED <<held, written, out>>

\* fs.read_inode(node).read(0, &mut buf, &mut fs) with a buffer as long as the one
\* last written to the file
FileRead ==
    /\ Running
    /\ nops < MaxFileOps
    /\ \E i \in {j \in Created : nodes[j].len # NONE} :
       \E ino \in {read_inode(FS, nodes[i].nbr)} :
       \E r \in {Inode_read(FS, ino.buf, 0, nodes[i].len)} :
        /\ ino.res = "Ok"
        /\ out' = r
        /\ last' = Call("read", nodes[i].len, r.res, [node |-> i])
        /\ nops' = nops + 1
        /\ UNCHANGED <<disk, disk_len, sb, pad, checked, held, written, nodes>>

\* a device with room for a file that needs its singly indirect block
FileBlocks == MaxBlocks + DIRECT_POINTERS + 1
InitFiles == InitWith({FileBlocks})

Next == CreateDirEntry \/ Delete \/ ListDir \/ FileWrite \/ FileRead
Spec == InitFiles /\ [][Next]_vars

\* the allocator alone, freeing only what was allocated
NextAlloc == AllocateBlock \/ FreeHeld \/ WriteBlock
SpecAlloc == Init /\ [][NextAlloc]_vars

\* the allocator alone, free_block with any argument
NextAny == AllocateBlock \/ FreeAny \/ WriteBlock
SpecAny == Init /\ [][NextAny]_vars

\* A device of two segments: SegTail blocks from the second descriptor block on.
\* The caller has allocated all but SegLead of the blocks below that descriptor.
SegTail == 4
SegLead == 2
SegBlocks == BLOCKS_PER_BLOCKARRAY + SegTail

\* fs.allocate_block(false), called until earliest_free is SegLead blocks below the
\* second descriptor block: the last call's outcome
Fill(fs) ==
    Iter(LAMBDA s : allocate_block(s.fs, FALSE),
         LAMBDA s : s.res # "Ok" \/ s.fs.sb.earliest_free >= BLOCKS_PER_BLOCKARRAY - SegLead,
         Ret(fs, "Ok", 0),
         BLOCKS_PER_BLOCKARRAY)

InitSeg ==
    \E p \in PadValues, c \in {TRUE} :
    \E r \in {create(SegBlocks, FsName, ClockSecs, p, c)} :
    \E f \in {Fill(r.fs)} :
        /\ r.res = "Ok"
        /\ f.res = "Ok"
        /\ disk = f.fs.disk
        /\ disk_len = f.fs.len
        /\ sb = f.fs.sb
        /\ pad = p
        /\ checked = c
        /\ held = {}
        /\ written = {}
        /\ nodes = <<>>
        /\ last = Call("allocate_block", 0, "Ok", f.val)
        /\ out = <<>>
        /\ nops = 0

SpecSeg == InitSeg /\ [][NextAlloc]_vars

----------------------------------------------------------------------------
(* superblock.rs, fs.rs: mounting *)

\* a name as the [u8; 32] the superblock keeps
Name32(name) == [i \in 1 .. 32 |-> IF i <= Len(name) THEN name[i] ELSE 0]

\* the Superblock a repr(C) image holds (the model's times are below 2^32)
SuperblockOfImage(b) ==
    [signature |-> [i \in 1 .. 8 |-> BufByte(b, i - 1)],
     earliest_free |-> BufU32(b, 8),
     earliest_inode_space |-> BufU32(b, 12),
     last_free |-> BufU32(b, 16),
     total_unused |-> BufU32(b, 20),
     total_blocks |-> BufU32(b, 24),
     last_mount |-> BufU32(b, 32),
     last_write |-> BufU32(b, 40),
     name |-> [i \in 1 .. 32 |-> BufByte(b, 47 + i)],
     file_prealloc |-> BufByte(b, 80),
     dir_prealloc |-> BufByte(b, 81),
     root_inode |-> BufU32(b, 84)]

\* Superblock::read
Superblock_read(fs, addr) ==
    With(read_exact(fs, addr, SUPERBLOCK_SIZE), LAMBDA r :
       IF r.res # "Ok" THEN [res |-> "DiskError", val |-> <<>>]
        ELSE IF SuperblockOfImage(r.buf).signature # SUPERBLOCK_SIGNATURE_SFS
            THEN [res |-> "InvalidSignature", val |-> <<>>]
        ELSE [res |-> "Ok", val |-> SuperblockOfImage(r.buf)])

\* FileSystem::from_disk: val is the superblock of the mounted filesystem
from_disk(fs) == Superblock_read(fs, SUPERBLOCK_ADDR)

\* Superblock::get_name, on the [u8; 32]
get_name(name32) ==
    LET z == {j \in 1 .. 32 : name32[j] = 0} IN
       IF z = {} THEN name32
        ELSE SubSeq(name32, 1, (CHOOSE j \in z : \A k \in z : j <= k) - 1)

----------------------------------------------------------------------------
(* Inodes created and deleted next to the allocator's calls *)

\* Inode::create(File, .., 1, 0): an inode that counts one link, as the root does
NewInode == Inode_create(TYPE_FILE + FILE_PERMISSIONS, 0, 0, 0, 1, 0, pad)

\* fs.create_inode(&inode)
CreateInode ==
    /\ Running
    /\ nops < MaxOps
    /\ \E ino \in {NewInode} :
       \E r \in {create_inode(FS, ino)} :
        /\ Commit(r.fs)
        /\ nodes' = Append(nodes, [name |-> <<>>, res |-> r.res, nbr |-> r.val,
                                   del |-> "no", len |-> NONE, wres |-> "no"])
        /\ last' = Call("create_inode", 1, r.res, r.val)
        /\ nops' = nops + 1
        /\ UNCHANGED <<held, written, out>>

\* fs.read_inode(node).unwrap().delete(node, &mut fs) on an inode create_inode
\* returned; val keeps what the call found: the link count and both hints
DeleteInode ==
    /\ Running
    /\ nops < MaxOps
    /\ \E i \in Created :
       \E ino \in {read_inode(FS, nodes[i].nbr)} :
       \E r \in {delete(FS, ino.buf, nodes[i].nbr)} :
        /\ ino.res = "Ok"
        /\ Commit(r.fs)
        /\ nodes' = [nodes EXCEPT ![i].del = r.res]
        /\ last' = Call("delete", nodes[i].nbr, r.res,
                        [links |-> hardlinks(ino.buf),
                         hint |-> sb.earliest_inode_space,
                         free |-> sb.earliest_free])
        /\ nops' = nops + 1
        /\ UNCHANGED <<held, written, out>>

\* the allocator and the inode table on one small device
NextInodes == AllocateBlock \/ FreeHeld \/ CreateInode \/ DeleteInode
SpecInodes == Init /\ [][NextInodes]_vars

\* the inode table with allocate_block as the only other call
NextSlots == AllocateBlock \/ CreateInode \/ DeleteInode
SpecSlots == Init /\ [][NextSlots]_vars

----------------------------------------------------------------------------
(* create on devices of one and of two segments *)

InitCreate == InitWith((0 .. MaxBlocks) \cup {SegBlocks})
SpecCreate == InitCreate /\ [][NextAlloc]_vars

----------------------------------------------------------------------------
(* Reads at any offset of a file *)

ReadOffsets == {0, 50, BLOCK_SIZE}
ReadLens == {1, 100, BLOCK_SIZE + 904}

\* fs.read_inode(node).read(off, &mut buf, &mut fs) with a buffer of n bytes; val
\* keeps the inode the call read from
ReadAt ==
    /\ Running
    /\ nops < MaxFileOps
    /\ \E i \in Created, off \in ReadOffsets, n \in ReadLens :
       \E ino \in {read_inode(FS, nodes[i].nbr)} :
       \E r \in {Inode_read(FS, ino.buf, off, n)} :
        /\ ino.res = "Ok"
        /\ out' = r
        /\ last' = Call("read_at", <<off, n>>, r.res, [node |-> i, ino |-> ino.buf])
        /\ nops' = nops + 1
        /\ UNCHANGED <<disk, disk_len, sb, pad, checked, held, written, nodes>>

NextRead == CreateDirEntry \/ FileWrite \/ ReadAt
SpecRead == InitFiles /\ [][NextRead]_vars

----------------------------------------------------------------------------
(* Directory entries with names of every kind of length *)

\* a name of n bytes
NameOfLen(n) == [i \in 1 .. n |-> 97 + (i % 26)]

\* the empty name, the shortest and the longest accepted, the first two rejected
NameCases ==
    {NameOfLen(n) : n \in {0, 1, DIRENTRY_NAME_LENGTH - 1, DIRENTRY_NAME_LENGTH,
                           DIRENTRY_NAME_LENGTH + 1}}

\* fs.create_dir_entry(fs.superblock.root_inode, Inode::create(..), name)
CreateNamed ==
    /\ Running
    /\ nops < MaxFileOps
    /\ \E name \in NameCases \ {nodes[i].name : i \in 1 .. Len(nodes)} :
       \E child \in {NewFile} :
       \E r \in {create_dir_entry(FS, sb.root_inode, child, name)} :
        /\ Commit(r.fs)
        /\ nodes' = Append(nodes, [name |-> name, res |-> r.res, nbr |-> r.val,
                                   del |-> "no", len |-> NONE, wres |-> "no"])
        /\ last' = Call("create_dir_entry", name, r.res, r.val)
        /\ nops' = nops + 1
        /\ UNCHANGED <<held, written, out>>

NextNames == CreateNamed \/ ListDir
SpecNames == InitFiles /\ [][NextNames]_vars

----------------------------------------------------------------------------
(* The descriptor of segment 0, set and read directly *)

Kinds == {"BlockArrayDescriptor", "Unused", "InodeBlock", "Allocated"}

\* the indices set is called with: the descriptor's own, the first and last of a
\* bitmap byte, the last of the segment, and two past the segment
SetIndices ==
    {0, 1, 7, 8, BLOCKS_PER_BLOCKARRAY - 1, BLOCKS_PER_BLOCKARRAY,
     BLOCKS_PER_BLOCKARRAY + 1}

\* the indices get is asked for: the bitmap bytes of the indices above
GetIndices == (0 .. 15) \cup (BLOCKS_PER_BLOCKARRAY - 8 .. BLOCKS_PER_BLOCKARRAY - 1)

\* what get returns for each of GetIndices
Reported(fs) == [j \in GetIndices |-> get(fs, 0, j)]

\* BlockArrayDescriptor::from_disk(disk, 0).set(index, typ); val keeps what get
\* returned for every index before the call
SetEntry ==
    /\ Running
    /\ nops < MaxOps
    /\ \E index \in SetIndices, typ \in Kinds :
       \E r \in {set(FS, 0, index, typ)} :
        /\ Commit(r.fs)
        /\ last' = Call("set", <<index, typ>>, r.res, [before |-> Reported(FS), disk |-> disk])
        /\ nops' = nops + 1
        /\ UNCHANGED <<held, written, nodes, out>>

NextDesc == SetEntry
SpecDesc == InitWith({MaxBlocks}) /\ [][NextDesc]_vars

----------------------------------------------------------------------------
(* A device of two segments whose caller holds the blocks of the first *)

HeldLead == 1       \* blocks left below the second descriptor block
HeldLow == 4        \* the caller frees blocks up to this id, or ones it got since

\* fs.allocate_block(false), called until earliest_free is within lead blocks of
\* the second descriptor block: the last call's outcome
FillTo(fs, lead) ==
    Iter(LAMBDA s : allocate_block(s.fs, FALSE),
         LAMBDA s : s.res # "Ok" \/ s.fs.sb.earliest_free >= BLOCKS_PER_BLOCKARRAY - lead,
         Ret(fs, "Ok", 0),
         BLOCKS_PER_BLOCKARRAY)

\* create leaves earliest_free = 3 and every call above returned the block after
\* the one before: the caller holds 3 .. f.val
InitHeld ==
    \E p \in {0}, c \in {TRUE} :
    \E r \in {create(SegBlocks, FsName, ClockSecs, p, c)} :
    \E f \in {FillTo(r.fs, HeldLead)} :
        /\ r.res = "Ok"
        /\ f.res = "Ok"
        /\ disk = f.fs.disk
        /\ disk_len = f.fs.len
        /\ sb = f.fs.sb
        /\ pad = p
        /\ checked = c
        /\ held = 3 .. f.val
        /\ written = {}
        /\ nodes = <<>>
        /\ last = Call("allocate_block", 0, "Ok", f.val)
        /\ out = <<>>
        /\ nops = 0

\* fs.free_block(b) on a block the caller holds
FreeLow ==
    \E b \in {h \in held : h <= HeldLow \/ h >= BLOCKS_PER_BLOCKARRAY - HeldLead} : Free(b)

NextHeld == AllocateBlock \/ FreeLow
SpecHeld == InitHeld /\ [][NextHeld]_vars

----------------------------------------------------------------------------
(* The descriptors of both segments of a two-segment device, set directly *)

\* BlockArrayDescriptor::from_disk(disk, seg).set(index, typ), on the entries of
\* the blocks next to each descriptor block; val keeps the disk before the call
SetSeg ==
    /\ Running
    /\ nops < MaxOps
    /\ \E seg \in {0, 1}, index \in {0, 1, SegTail - 1}, typ \in Kinds :
       \E r \in {set(FS, seg, index, typ)} :
        /\ Commit(r.fs)
        /\ last' = Call("set_seg", <<seg, index, typ>>, r.res, [disk |-> disk])
        /\ nops' = nops + 1
        /\ UNCHANGED <<held, written, nodes, out>>

SpecSegDesc == InitWith({SegBlocks}) /\ [][SetSeg]_vars

----------------------------------------------------------------------------
(* Files resized across the direct slots and into the singly indirect block *)

\* the block counts resize_self is called with: one and two blocks, and one and two
\* blocks more than the direct slots hold
ResizeTo == {1, 2, DIRECT_POINTERS + 1, DIRECT_POINTERS + 2}

\* fs.read_inode(node).resize_self(to, &mut fs, node), the call file_write makes with
\* the blocks its buffer needs; val keeps the filesystem and the inode before the call
ResizeSelf ==
    /\ Running
    /\ nops < MaxFileOps
    /\ \E i \in Created, to \in ResizeTo :
       \E ino \in {read_inode(FS, nodes[i].nbr)} :
       \E r \in {resize_self(FS, ino.buf, to, nodes[i].nbr)} :
        /\ ino.res = "Ok"
        /\ Commit(r.fs)
        /\ last' = Call("resize_self", to, r.res,
                        [node |-> i, before |-> FS, ino |-> ino.buf])
        /\ nops' = nops + 1
        /\ UNCHANGED <<held, written, nodes, out>>

NextTree == CreateDirEntry \/ ResizeSelf
SpecTree == InitFiles /\ [][NextTree]_vars

----------------------------------------------------------------------------
(* Inodes with more than one link *)

\* the names link_to_inode is given: one it accepts and one DirEntry::create refuses
LinkNames == {<<120>>, NameOfLen(DIRENTRY_NAME_LENGTH)}

\* fs.link_to_inode(fs.superblock.root_inode, node, name) on an inode
\* create_dir_entry returned
LinkToInode ==
    /\ Running
    /\ nops < MaxOps
    /\ \E i \in Created, name \in LinkNames :
       \E r \in {link_to_inode(FS, sb.root_inode, nodes[i].nbr, name)} :
        /\ Commit(r.fs)
        /\ last' = Call("link_to_inode", name, r.res, [node |-> i])
        /\ nops' = nops + 1
        /\ UNCHANGED <<held, written, nodes, out>>

NextLinks == CreateDirEntry \/ ResizeSelf \/ LinkToInode \/ DeleteInode
SpecLinks == InitFiles /\ [][NextLinks]_vars

----------------------------------------------------------------------------
(* free_block of ids that name no data block, on a device of two segments *)

\* fs.free_block(b) with block id 0 or the id of the second descriptor block
FreeInvalid == \E b \in {0, BLOCKS_PER_BLOCKARRAY} : Free(b)

NextSegInvalid == AllocateBlock \/ FreeInvalid
SpecSegInvalid == InitSeg /\ [][NextSegInvalid]_vars

----------------------------------------------------------------------------
(* A directory filled as main.rs fills it, then written by slot and by append *)

DirFill == 15       \* entries main's loop has made, with names of 254 bytes

\* `for i in 0..k { fs.create_dir_entry(root, Inode::create(File, ..), name) }`
FillDir(fs, k, p) ==
    Iter(LAMBDA s : [i |-> s.i + 1,
                     r |-> create_dir_entry(s.r.fs, s.r.fs.sb.root_inode,
                              Inode_create(TYPE_FILE + FILE_PERMISSIONS, 0, 0, 0, 0, 0, p),
                              NameOfLen(DIRENTRY_NAME_LENGTH - 1))],
         LAMBDA s : s.r.res # "Ok" \/ s.i >= k,
         [i |-> 0, r |-> Ret(fs, "Ok", 0)],
         k).r

\* the root directory one entry short of the writer's cutoff, or past it
InitDir ==
    \E p \in PadValues, c \in BOOLEAN, k \in {DirFill - 1, DirFill} :
    \E r \in {create(FileBlocks, FsName, ClockSecs, p, c)} :
    \E f \in {FillDir(r.fs, k, p)} :
        /\ r.res = "Ok"
        /\ f.res = "Ok"
        /\ disk = f.fs.disk
        /\ disk_len = f.fs.len
        /\ sb = f.fs.sb
        /\ pad = p
        /\ checked = c
        /\ held = {}
        /\ written = {}
        /\ nodes = <<>>
        /\ last = Call("fill", k, "Ok", f.val)
        /\ out = <<>>
        /\ nops = 0

\* the explicit writes: an entry with inode 0 over the first entry, a live entry
\* in the slot after the filled ones, and one in the slot after that
SlotCases == {<<0, 0>>, <<DirFill, 1>>, <<DirFill + 1, 1>>}

\* fs.read_inode(root).write_dir_entry(&mut fs, &DirEntry::create(inode, name)?,
\* Some(slot), root)
WriteDirEntryAt ==
    /\ Running
    /\ nops < MaxFileOps
    /\ \E c \in SlotCases :
       \E node \in {read_inode(FS, sb.root_inode)} :
       \E e \in {DirEntry_create(c[2] * sb.root_inode, <<120>>)} :
       \E r \in {write_dir_entry(FS, node.buf, e.val, c[1], sb.root_inode)} :
        /\ node.res = "Ok"
        /\ e.res = "Ok"
        /\ Commit(r.fs)
        /\ last' = Call("write_dir_entry", c, r.res, r.val)
        /\ nops' = nops + 1
        /\ UNCHANGED <<held, written, nodes, out>>

\* DirectoryIterator::next run to the end, as DirectoryIterator runs it: the
\* number of entries read, and the largest in-block end (offset + size) of one
DirectoryIteratorReads(fs, ino) ==
    Iter(LAMBDA s :
            With(read_from_disk(fs, ino, s.next_blk * BLOCK_SIZE + s.next_off), LAMBDA r :
            LET Advance(t) ==
                    IF t.next_off + get_size(r.val) + DIRENTRY_STRUCT_SIZE >= BLOCK_SIZE
                    THEN [t EXCEPT !.next_off = 0, !.next_blk = @ + 1]
                    ELSE [t EXCEPT !.next_off = @ + get_size(r.val)]
                read == [s EXCEPT !.reads = @ + 1,
                                  !.end = Max(@, s.next_off + get_size(r.val))] IN
               IF r.res # "Ok" THEN [s EXCEPT !.done = TRUE]
                ELSE IF is_empty(r.val) THEN Advance(read)
                ELSE Advance(Advance(read))),
         LAMBDA s : s.done,
         [next_off |-> 0, next_blk |-> 0, reads |-> 0, end |-> 0, done |-> FALSE],
         2 * 1024 * 1024)

NextDir == CreateNamed \/ WriteDirEntryAt \/ ListDir
SpecDir == InitDir /\ [][NextDir]_vars

----------------------------------------------------------------------------
(* DirectoryIterator, one call of next() at a time *)

\* DirectoryIterator::next that calls itself for an empty entry without having
\* advanced
DirectoryIterator_next_stuck(fs, ino, it) ==
    With(read_from_disk(fs, ino, it.next_blk * BLOCK_SIZE + it.next_off), LAMBDA r :
    LET Advance(t) ==
            IF t.next_off + get_size(r.val) + DIRENTRY_STRUCT_SIZE >= BLOCK_SIZE
            THEN [t EXCEPT !.next_off = 0, !.next_blk = @ + 1]
            ELSE [t EXCEPT !.next_off = @ + get_size(r.val)] IN
       IF r.res # "Ok" THEN [it |-> it, res |-> "None", val |-> <<>>]
        ELSE IF is_empty(r.val) THEN [it |-> it, res |-> "Again", val |-> r.val]
        ELSE [it |-> Advance(Advance(it)), res |-> "Some", val |-> r.val])

\* One call of DirectoryIterator::next on the cursor it = [next_off, next_blk], up
\* to its return or to the call it makes on itself: res is "Some" (val returned),
\* "Again" (an empty entry: `return self.next()`) or "None"
DirectoryIterator_next(fs, ino, it) ==
    With(read_from_disk(fs, ino, it.next_blk * BLOCK_SIZE + it.next_off), LAMBDA r :
    LET Advance(t) ==
            IF t.next_off + get_size(r.val) + DIRENTRY_STRUCT_SIZE >= BLOCK_SIZE
            THEN [t EXCEPT !.next_off = 0, !.next_blk = @ + 1]
            ELSE [t EXCEPT !.next_off = @ + get_size(r.val)] IN
       IF r.res # "Ok" THEN [it |-> it, res |-> "None", val |-> <<>>]
        ELSE IF is_empty(r.val) THEN [it |-> Advance(it), res |-> "Again", val |-> r.val]
        ELSE [it |-> Advance(Advance(it)), res |-> "Some", val |-> r.val])

\* the root directory resized to n blocks, each byte of them set to b
Scribbled(fs, n, b) ==
    LET root == fs.sb.root_inode
        r == resize_self(fs, read_inode(fs, root).buf, n, root)
    IN  Iter(LAMBDA s :
                With(get_block_id(s.fs, read_inode(s.fs, root).buf, s.k), LAMBDA blk :
                   [k |-> s.k + 1,
                    fs |-> IF blk = NONE \/ b = 0 THEN s.fs
                           ELSE write_exact(s.fs, blk * BLOCK_SIZE,
                                            BufOfSeq([i \in 1 .. BLOCK_SIZE |-> b])).fs]),
             LAMBDA s : s.k >= n,
             [k |-> 0, fs |-> r.fs],
             n).fs

\* the directories iterated: direct blocks of zeros, of entries with names of one
\* byte and of entries with names of 127 bytes
ScribbleCases ==
    {<<1, 0>>, <<2, 0>>, <<1, 1>>, <<2, 1>>, <<2, 127>>, <<DIRECT_POINTERS, 127>>}

\* DirectoryIterator::new(fs.read_inode(root), &mut fs) on a directory that is
\* empty, filled by create_dir_entry, or resized and overwritten
InitIter ==
    \E p \in PadValues, c \in BOOLEAN :
    \E r \in {create(FileBlocks, FsName, ClockSecs, p, c)} :
    \E f \in {FillDir(r.fs, k, p).fs : k \in {0, DirFill}}
             \cup {Scribbled(r.fs, s[1], s[2]) : s \in ScribbleCases} :
        /\ r.res = "Ok"
        /\ disk = f.disk
        /\ disk_len = f.len
        /\ sb = f.sb
        /\ pad = p
        /\ checked = c
        /\ held = {}
        /\ written = {}
        /\ nodes = <<>>
        /\ last = Call("new", sb.root_inode, "Ok", 0)
        /\ out = [next_off |-> 0, next_blk |-> 0]
        /\ nops = 0

\* dir_iter.next(), and the call next() makes on itself, taken as the following
\* step: how deep those calls nest is not part of the state
IterNext ==
    /\ \E node \in {read_inode(FS, sb.root_inode)} :
       \E r \in {DirectoryIterator_next(FS, node.buf, out)} :
        /\ out' = r.it
        /\ last' = Call("next", out, r.res, r.val)
    /\ UNCHANGED <<disk, disk_len, sb, pad, checked, held, written, nodes, nops>>

SpecIter == InitIter /\ [][IterNext]_vars

\* ENABLED <<IterNext>>_vars: the call changes the cursor or returns something else
\* than the call before it
IterNextEnabled ==
    \E r \in {DirectoryIterator_next(FS, read_inode(FS, sb.root_inode).buf, out)} :
        <<r.it, Call("next", out, r.res, r.val)>> # <<out, last>>

\* the caller's loop calls next() until it returns None: WF_vars(IterNext), with
\* the enabling condition written out
SpecIterFair == SpecIter /\ ([]<>~IterNextEnabled \/ []<><<IterNext>>_vars)

----------------------------------------------------------------------------
(* Properties *)

\* the names create_dir_entry was given, in the order of the calls
Inserted == [i \in 1 .. Len(nodes) |-> nodes[i].name]

\* no create_dir_entry failed and no node was deleted
OnlyInserts == \A i \in 1 .. Len(nodes) : nodes[i].res = "Ok" /\ nodes[i].del = "no"

\* C1: after K successful create_dir_entry calls with distinct names and no
\* deletion, DirectoryIterator yields exactly those K names, each once, in
\* insertion order.
C1_DirectoryRoundTrip ==
    (last.op = "list" /\ OnlyInserts)
        => [i \in 1 .. Len(out) |-> out[i].name] = Inserted

\* blocks a file of n bytes needs, and one more: allocate_block never hands out the
\* last Unused block
EnoughFree(n, free) == free > DivCeil(n, BLOCK_SIZE) + 1

\* C2: file_write of a buffer whose length is not a multiple of the block size, on
\* a File inode with enough free blocks, returns Ok, and reading that many bytes at
\* offset 0 afterwards returns exactly the buffer.
C2_WriteReadRoundTrip ==
    /\ (/\ last.op = "file_write"
        /\ last.arg % BLOCK_SIZE # 0
        /\ nodes[last.val.node].del = "no"
        /\ EnoughFree(last.arg, last.val.free))
            => last.res = "Ok"
    /\ (/\ last.op = "read"
        /\ last.arg % BLOCK_SIZE # 0
        /\ nodes[last.val.node].del = "no"
        /\ nodes[last.val.node].wres = "Ok")
            => (out.res = "Ok" /\ out.val = last.arg /\ out.buf = FileData(last.arg))

\* C3: after file_write of L bytes on a File inode with enough free blocks, the
\* persisted inode resolves the logical positions 0 .. n-1 and not n, where
\* n = ceil(L / BLOCK_SIZE), and its meta is L mod BLOCK_SIZE.
C3_BlocksAndMeta ==
    (/\ last.op = "file_write"
     /\ nodes[last.val.node].del = "no"
     /\ EnoughFree(last.arg, last.val.free))
        => \E ino \in {read_inode(FS, nodes[last.val.node].nbr).buf} :
              /\ \A k \in 0 .. DivCeil(last.arg, BLOCK_SIZE) - 1 :
                    get_block_id(FS, ino, k) # NONE
              /\ get_block_id(FS, ino, DivCeil(last.arg, BLOCK_SIZE)) = NONE
              /\ meta(ino) = last.arg % BLOCK_SIZE

\* C4: a delete that brings hardlinks to zero returns Ok, leaves every block the
\* inode referred to Unused in the bitmap, and leaves every pointer field of the
\* persisted inode zero.
C4_DeleteFreesAll ==
    (last.op = "delete" /\ last.val.links = 1)
        => /\ last.res = "Ok"
           /\ \A b \in last.val.refs : Kind(FS, b) = "Unused"
           /\ \E ino \in {read_inode(FS, last.arg).buf} :
                 /\ \A k \in 0 .. DIRECT_POINTERS - 1 : block_pointers(ino, k) = 0
                 /\ singly_indirect_block_pointer(ino) = 0
                 /\ doubly_indirect_block_pointer(ino) = 0

\* C5: a listing names no inode whose slot is free (hardlinks 0); once every
\* created file has been deleted the listing is empty.
C5_DeletedNotListed ==
    last.op = "list"
        => /\ \A i \in 1 .. Len(out) : hardlinks(read_inode(FS, out[i].inode).buf) > 0
           /\ (/\ Len(nodes) > 0
               /\ \A i \in 1 .. Len(nodes) : nodes[i].res = "Ok" /\ nodes[i].del = "Ok")
                  => out = <<>>

\* a successful allocate_block(false)
DataAlloc(c) == c.op = "allocate_block" /\ c.res = "Ok" /\ c.arg = 0

\* C6: a successful allocate_block(false) never returns a multiple of
\* BLOCKS_PER_BLOCKARRAY, and when the call before it was a successful
\* allocate_block(false) too, it returns a greater block id than that call.
C6_AllocatorMonotone ==
    [][DataAlloc(last')
          => /\ last'.val % BLOCKS_PER_BLOCKARRAY # 0
             /\ DataAlloc(last) => last'.val > last.val]_vars

\* allocations alone have gone from the last block before a segment boundary to
\* the first block after it
C6_Witness ==
    /\ DataAlloc(last)
    /\ last.val = BLOCKS_PER_BLOCKARRAY + 1
    /\ (BLOCKS_PER_BLOCKARRAY - 1) \in held
    /\ written = {}
    /\ nops = Cardinality(held)

\* C7: the block allocate_block returns holds only zero bytes when the call
\* returns, also a block that was allocated, written and freed before.
C7_AllocatedZeroed ==
    (last.op = "allocate_block" /\ last.res = "Ok")
        => Held(disk, last.val * BLOCK_SIZE, BLOCK_SIZE) = {}

\* allocate_block has returned a block the caller had written and then freed
C7_Witness ==
    /\ last.op = "allocate_block"
    /\ last.res = "Ok"
    /\ last.val \in written

\* C8: allocate_block never returns a multiple of BLOCKS_PER_BLOCKARRAY,
\* free_block of such an id returns InvalidBlock, and pointer returns InvalidBlock
\* for such an id and id * BLOCK_SIZE for every other id.
C8_DescriptorIds ==
    /\ (last.op = "allocate_block" /\ last.res = "Ok")
            => last.val % BLOCKS_PER_BLOCKARRAY # 0
    /\ (last.op = "free_block" /\ last.arg % BLOCKS_PER_BLOCKARRAY = 0)
            => last.res = "InvalidBlock"
    /\ \A b \in FreeArgs :
            pointer(b) = IF b % BLOCKS_PER_BLOCKARRAY = 0
                         THEN [res |-> "InvalidBlock", val |-> 0]
                         ELSE [res |-> "Ok", val |-> b * BLOCK_SIZE]

\* C9: earliest_free is 0, or it is below total_blocks, the bitmap reports it
\* Unused and reports no block below it Unused.
C9_EarliestFree ==
    \/ sb.earliest_free = 0
    \/ /\ sb.earliest_free < sb.total_blocks
       /\ Kind(FS, sb.earliest_free) = "Unused"
       /\ \A b \in 0 .. sb.earliest_free - 1 : Kind(FS, b) # "Unused"

\* free_block has lowered earliest_free to the block it freed, other blocks held
C9_Witness ==
    /\ last.op = "free_block"
    /\ last.res = "Ok"
    /\ sb.earliest_free = last.arg
    /\ held # {}

\* C10: earliest_free is 0 only if the bitmap reports no block Unused.
C10_ZeroMeansFull == sb.earliest_free = 0 => UnusedBlocks(FS) = {}


\* C11: superblock.total_unused equals the number of blocks the bitmap reports
\* Unused, after create and after every allocate_block, free_block, create_inode
\* and delete.
C11_TotalUnused == sb.total_unused = Cardinality(UnusedBlocks(FS))

\* C12: after create and after every allocate_block, free_block of a held block,
\* create_inode or delete that returns Ok or NoSpace, the superblock stored in
\* block 1 equals the in-memory superblock: from_disk succeeds and yields the same
\* fields, name, total_blocks, root_inode, earliest_free and earliest_inode_space
\* among them.
C12_SuperblockPersisted ==
    (/\ last.op \in {"create", "allocate_block", "free_block", "create_inode", "delete"}
     /\ last.res \in {"Ok", "NoSpace"})
        => /\ from_disk(FS).res = "Ok"
           /\ from_disk(FS).val = [sb EXCEPT !.name = Name32(sb.name)]
           /\ get_name(from_disk(FS).val.name) = sb.name

\* allocate_block has taken the last block (last_free cleared, earliest_free 0,
\* NoSpace) after an inode block was allocated (the inode hint moved)
C12_Witness ==
    /\ last.op = "allocate_block"
    /\ last.res = "NoSpace"
    /\ sb.last_free = 0
    /\ sb.earliest_free = 0
    /\ sb.earliest_inode_space # sb.root_inode

\* the block that holds the inode slot nbr, and the slots of that block
SlotBlock(nbr) == nbr \div INODES_PER_BLOCK
BlockSlots(b) == {b * INODES_PER_BLOCK + i : i \in 0 .. INODES_PER_BLOCK - 1}

\* no slot of block b counts a hardlink
AllSlotsFree(fs, b) == \A n \in BlockSlots(b) : hardlinks(read_inode(fs, n).buf) = 0

\* C13: once a delete has left no slot of the inode's block with a hardlink, the
\* bitmap reports that block Unused, and when it is the lowest Unused block the
\* allocator's next block (earliest_free) is that block.
C13_DeleteReclaims ==
    (/\ last.op = "delete"
     /\ last.res = "Ok"
     /\ last.val.links = 1
     /\ AllSlotsFree(FS, SlotBlock(last.arg)))
        => /\ Kind(FS, SlotBlock(last.arg)) = "Unused"
           /\ (\A b \in UnusedBlocks(FS) : SlotBlock(last.arg) <= b)
                 => sb.earliest_free = SlotBlock(last.arg)

\* the blocks create leaves to the allocator: all but the descriptors, the
\* superblock's block and the root inode's block
LeftFree(n, root) ==
    {b \in 2 .. n - 1 : b % BLOCKS_PER_BLOCKARRAY # 0 /\ b # SlotBlock(root)}

\* C14: after a successful create(N, name): total_blocks = N; root_inode is
\* non-zero and names a Directory inode with hardlinks 1 in a block the bitmap
\* reports as InodeBlock; block 0 reads as BlockArrayDescriptor and block 1 as
\* Allocated, usage bits 0 and 1 of byte 0 set; every other non-descriptor block
\* is Unused and earliest_free is the lowest of them.
C14_CreatePost ==
    last.op = "create"
        => /\ last.res = "Ok"
           /\ sb.total_blocks = last.arg
           /\ sb.root_inode # 0
           /\ last.val = sb.root_inode
           /\ read_inode(FS, sb.root_inode).res = "Ok"
           /\ get_type(read_inode(FS, sb.root_inode).buf) = TYPE_DIRECTORY
           /\ hardlinks(read_inode(FS, sb.root_inode).buf) = 1
           /\ Kind(FS, SlotBlock(sb.root_inode)) = "InodeBlock"
           /\ Kind(FS, 0) = "BlockArrayDescriptor"
           /\ Kind(FS, 1) = "Allocated"
           /\ Bit(read_u8(FS, 0).val, 0) = 1
           /\ Bit(read_u8(FS, 0).val, 1) = 1
           /\ \A b \in LeftFree(last.arg, sb.root_inode) : Kind(FS, b) = "Unused"
           /\ sb.earliest_free \in LeftFree(last.arg, sb.root_inode)
           /\ \A b \in LeftFree(last.arg, sb.root_inode) : sb.earliest_free <= b

\* create has made a filesystem of two segments
C14_Witness ==
    /\ last.op = "create"
    /\ last.res = "Ok"
    /\ sb.total_blocks > BLOCKS_PER_BLOCKARRAY
    /\ Kind(FS, BLOCKS_PER_BLOCKARRAY) = "BlockArrayDescriptor"

\* the bytes a read of n bytes at off copies before it meets a logical block that
\* does not resolve: the first k chunks, each ending at a block boundary or at n
RECURSIVE Copied(_, _, _, _)
Copied(fs, ino, off, n) ==
    IF n = 0 \/ get_block_id(fs, ino, off \div BLOCK_SIZE) = NONE THEN 0
    ELSE LET length == Min(BLOCK_SIZE - (off % BLOCK_SIZE), n) IN
            length + Copied(fs, ino, off + length, n - length)

\* C15: Inode::read returns Ok also when a logical block does not resolve: Ok with
\* the number of bytes copied so far (0 when the first block is unresolved), and
\* Ok(len(buf)) when every block it needs resolves.
C15_ShortRead ==
    last.op = "read_at"
        => /\ last.res = "Ok"
           /\ out.val = Copied(FS, last.val.ino, last.arg[1], last.arg[2])

\* a name DirEntry::create refuses: empty, or 255 bytes or longer
Refused(name) == Len(name) = 0 \/ Len(name) >= 255

\* C16: DirEntry::create, and create_dir_entry through link_to_inode, return
\* NameTooLong exactly when the name is empty or 255 bytes or longer; they accept
\* every name of 1 to 254 bytes.
C16_NameTooLong ==
    /\ \A name \in NameCases :
          (DirEntry_create(1, name).res = "NameTooLong") <=> Refused(name)
    /\ \A name \in NameCases :
          ~Refused(name) => /\ DirEntry_create(1, name).res = "Ok"
                            /\ DirEntry_create(1, name).val.name = name
                            /\ DirEntry_create(1, name).val.name_size = Len(name)
    /\ last.op = "create_dir_entry"
          => /\ (last.res = "NameTooLong") <=> Refused(last.arg)
             /\ ~Refused(last.arg) => last.res = "Ok"

\* create_dir_entry has refused a name of 255 bytes and then accepted one of 254
C16_Witness ==
    /\ Len(nodes) >= 2
    /\ last.op = "create_dir_entry"
    /\ last.res = "Ok"
    /\ Len(last.arg) = DIRENTRY_NAME_LENGTH - 1
    /\ \E i \in 1 .. Len(nodes) :
          Len(nodes[i].name) = DIRENTRY_NAME_LENGTH /\ nodes[i].res = "NameTooLong"

\* C17: after set(i, kind) with 1 <= i < BLOCKS_PER_BLOCKARRAY, get(i) returns kind
\* (Allocated for kind BlockArrayDescriptor) and get(j) is what it was for every
\* other j; after set(0, x), get(0) is BlockArrayDescriptor; set with
\* i >= BLOCKS_PER_BLOCKARRAY changes nothing; Unused set twice leaves Unused.
C17_SetGet ==
    last.op = "set"
        => /\ last.res = "Ok"
           /\ last.arg[1] >= BLOCKS_PER_BLOCKARRAY => disk = last.val.disk
           /\ get(FS, 0, 0) = [res |-> "Ok", val |-> "BlockArrayDescriptor"]
           /\ (last.arg[1] >= 1 /\ last.arg[1] < BLOCKS_PER_BLOCKARRAY)
                 => get(FS, 0, last.arg[1])
                        = [res |-> "Ok",
                           val |-> IF last.arg[2] = "BlockArrayDescriptor"
                                   THEN "Allocated" ELSE last.arg[2]]
           /\ \A j \in GetIndices \ {last.arg[1]} : get(FS, 0, j) = last.val.before[j]

\* set(1, Unused) on the superblock's block, Allocated since create, after an
\* earlier set had made it Unused already; its neighbours in the byte are in use
C17_Witness ==
    /\ last.op = "set"
    /\ last.arg = <<1, "Unused">>
    /\ last.val.before[1].val = "Unused"
    /\ last.val.before[7].val = "InodeBlock"
    /\ last.val.before[2].val = "InodeBlock"
    /\ get(FS, 0, 1).val = "Unused"

\* C18: every slot number create_inode returns lies in a block the bitmap reports
\* as InodeBlock when the call returns.
C18_SlotsInInodeBlocks ==
    (last.op = "create_inode" /\ last.res = "Ok")
        => Kind(FS, SlotBlock(last.val)) = "InodeBlock"

\* C19: when delete has freed the inode's block (all its slots free) and
\* earliest_inode_space pointed at a slot of that block, earliest_inode_space is 0
\* in memory and on disk when delete returns.
C19_HintCleared ==
    (/\ last.op = "delete"
     /\ last.res = "Ok"
     /\ last.val.links = 1
     /\ last.val.hint # 0
     /\ SlotBlock(last.val.hint) = SlotBlock(last.arg)
     /\ Kind(FS, SlotBlock(last.arg)) = "Unused")
        => /\ sb.earliest_inode_space = 0
           /\ from_disk(FS).val.earliest_inode_space = 0

\* C20: allocate_block never returns a block id the caller holds (returned earlier
\* and not freed since), nor block 1, on a device of one or of several segments.
C20_NoDoubleAllocation ==
    [][(last'.op = "allocate_block" /\ last'.res = "Ok")
          => (last'.val \notin held /\ last'.val # 1)]_vars

\* the addresses at which two memories differ, and the blocks they lie in
DiffAddrs(m1, m2) ==
    {a \in DOMAIN m1 \cup DOMAIN m2 :
        (IF a \in DOMAIN m1 THEN m1[a] ELSE 0) # (IF a \in DOMAIN m2 THEN m2[a] ELSE 0)}
DiffBlocks(m1, m2) == {a \div BLOCK_SIZE : a \in DiffAddrs(m1, m2)}

\* the filesystem with every byte outside block b zero
OnlyBlock(fs, b) ==
    [fs EXCEPT !.disk = [a \in Held(fs.disk, b * BLOCK_SIZE, BLOCK_SIZE) |-> fs.disk[a]]]

\* C21: for every segment s, set writes only bytes of block
\* s * BLOCKS_PER_BLOCKARRAY and get reads only bytes of that block (it returns
\* what it would with every other block zero); no byte of a data, inode or
\* superblock block is touched.
C21_DescriptorBytes ==
    last.op = "set_seg"
        => /\ DiffBlocks(last.val.disk, disk) \subseteq {last.arg[1] * BLOCKS_PER_BLOCKARRAY}
           /\ get(FS, last.arg[1], last.arg[2])
                 = get(OnlyBlock(FS, last.arg[1] * BLOCKS_PER_BLOCKARRAY),
                       last.arg[1], last.arg[2])

\* the bytes of block b, and the two bitmap bytes that hold the entry of block b
BlockBytes(b) == b * BLOCK_SIZE .. (b + 1) * BLOCK_SIZE - 1
BitmapBytes(b) ==
    {(b \div BLOCKS_PER_BLOCKARRAY) * BLOCKS_PER_BLOCKARRAY * BLOCK_SIZE
        + (b % BLOCKS_PER_BLOCKARRAY) \div 8 + k : k \in {0, KIND_BITMAP_OFFSET}}

\* the blocks in use in fs that were Unused in fs0
Taken(fs0, fs) == UnusedBlocks(fs0) \ UnusedBlocks(fs)

\* C22: when resize_self extends a file that had no indirect block to more than ten
\* blocks, the pointer of every logical block k >= 10 is stored in the singly
\* indirect block id, at byte id * BLOCK_SIZE + 4 * (k - 10), get_block_id(k) returns
\* the entry stored there, and the call changes no byte outside the indirect block
\* other than the bitmap entries of the blocks it took, the superblock and the
\* inode's slot.
C22_IndirectEntry ==
    (/\ last.op = "resize_self"
     /\ last.res = "Ok"
     /\ last.arg > DIRECT_POINTERS
     /\ singly_indirect_block_pointer(last.val.ino) = 0)
        => \E nbr \in {nodes[last.val.node].nbr} :
           \E ino \in {read_inode(FS, nbr).buf} :
           \E id \in {singly_indirect_block_pointer(ino)} :
              /\ id \in Taken(last.val.before, FS)
              /\ \A k \in DIRECT_POINTERS .. last.arg - 1 :
                    /\ read_u32(FS, id * BLOCK_SIZE + 4 * (k - DIRECT_POINTERS)).val
                            \in Taken(last.val.before, FS)
                    /\ get_block_id(FS, ino, k)
                            = read_u32(FS, id * BLOCK_SIZE + 4 * (k - DIRECT_POINTERS)).val
              /\ DiffAddrs(last.val.before.disk, disk)
                    \subseteq (BlockBytes(id)
                               \cup UNION {BitmapBytes(b) : b \in Taken(last.val.before, FS)}
                               \cup (SUPERBLOCK_ADDR .. SUPERBLOCK_ADDR + SUPERBLOCK_SIZE - 1)
                               \cup (nbr * INODE_SIZE .. (nbr + 1) * INODE_SIZE - 1))

\* C23: an allocate_block that returns an error, NoSpace among them, leaves the set
\* of blocks the bitmap reports as used as it was before the call.
C23_FailedAllocLeaksNothing ==
    [][(last'.op = "allocate_block" /\ last'.res # "Ok")
          => UnusedBlocks(FS)' = UnusedBlocks(FS)]_vars

\* the block a logical position of an inode resolved to, when it resolved to one
Resolved(fs, ino, k) == {get_block_id(fs, ino, k)} \ {NONE, 0}

\* C24: after resize_self(n) returns Ok, every direct slot at index >= n is zero and
\* the block it held is Unused; if n <= 10 the singly indirect pointer is zero and
\* the singly indirect block and the blocks it referred to are Unused; if n <= 1034
\* the doubly indirect pointer is zero; and no block that was referenced at a
\* position below n is Unused.
C24_Shrink ==
    (last.op = "resize_self" /\ last.res = "Ok")
        => \E n \in {last.arg}, old \in {last.val.ino}, was \in {last.val.before} :
           \E ino \in {read_inode(FS, nodes[last.val.node].nbr).buf} :
              /\ \A i \in n .. DIRECT_POINTERS - 1 :
                    /\ block_pointers(ino, i) = 0
                    /\ block_pointers(old, i) # 0
                          => Kind(FS, block_pointers(old, i)) = "Unused"
              /\ n <= DIRECT_POINTERS
                    => /\ singly_indirect_block_pointer(ino) = 0
                       /\ singly_indirect_block_pointer(old) # 0
                             => /\ Kind(FS, singly_indirect_block_pointer(old)) = "Unused"
                                /\ \A k \in DIRECT_POINTERS .. DIRECT_POINTERS + 1 :
                                   \A b \in Resolved(was, old, k) : Kind(FS, b) = "Unused"
              /\ n <= DIRECT_POINTERS + POINTERS_PER_BLOCK
                    => doubly_indirect_block_pointer(ino) = 0
              /\ \A k \in 0 .. n - 1 :
                 \A b \in Resolved(was, old, k) : Kind(FS, b) # "Unused"

\* C25: for every inode create_dir_entry returned and every logical position i,
\* get_block_id(i) is the non-zero direct slot i when i < 10 and none when that slot
\* is zero; it is none for i >= 10 when the singly indirect pointer is zero; and it
\* is never Some(0): a zero entry at the end of the path gives none.
C25_GetBlockId ==
    \A n \in Created :
    \E ino \in {read_inode(FS, nodes[n].nbr).buf} :
    \A i \in 0 .. DIRECT_POINTERS + 1 :
        /\ i < DIRECT_POINTERS
              => get_block_id(FS, ino, i)
                    = IF block_pointers(ino, i) = 0 THEN NONE ELSE block_pointers(ino, i)
        /\ (i >= DIRECT_POINTERS /\ singly_indirect_block_pointer(ino) = 0)
              => get_block_id(FS, ino, i) = NONE
        /\ get_block_id(FS, ino, i) # 0

\* the bytes of the hardlinks field of inode slot nbr
HardlinkBytes(nbr) == {nbr * INODE_SIZE + INO_HARDLINKS, nbr * INODE_SIZE + INO_HARDLINKS + 1}

\* C26: a delete on an inode with two or more hardlinks returns Ok, stores the
\* inode with hardlinks one less and changes nothing else: no other byte of the
\* inode (its block pointers), of the bitmap or of any block changes, and the
\* superblock is unchanged.
C26_DeleteKeepsLinked ==
    [][(last'.op = "delete" /\ last'.val.links >= 2)
          => /\ last'.res = "Ok"
             /\ sb' = sb
             /\ \E after \in {FS'} :
                   hardlinks(read_inode(after, last'.arg).buf) = last'.val.links - 1
             /\ DiffAddrs(disk, disk') \subseteq HardlinkBytes(last'.arg)
             /\ UnusedBlocks(FS)' = UnusedBlocks(FS)]_vars

\* delete has taken one of the two links of a file that has two data blocks
C26_Witness ==
    /\ last.op = "delete"
    /\ last.res = "Ok"
    /\ last.val.links = 2
    /\ hardlinks(read_inode(FS, last.arg).buf) = 1
    /\ Kind(FS, block_pointers(read_inode(FS, last.arg).buf, 0)) = "Allocated"
    /\ Kind(FS, block_pointers(read_inode(FS, last.arg).buf, 1)) = "Allocated"

\* C27: a create_dir_entry or link_to_inode that returns NameTooLong leaves the
\* filesystem as it was: no byte of the disk changes (no inode slot written, no
\* hardlinks count raised, no block taken) and the superblock is unchanged.
C27_RefusedNameNoEffect ==
    [][(last'.op \in {"create_dir_entry", "link_to_inode"} /\ last'.res = "NameTooLong")
          => (disk' = disk /\ sb' = sb)]_vars

\* C28: a free_block that returns InvalidBlock (block id 0 or a multiple of
\* BLOCKS_PER_BLOCKARRAY) leaves the superblock, in memory and on disk, and what the
\* bitmap reports for every block unchanged, and allocate_block returns after it
\* what it would have returned before it.
C28_InvalidFreeNoEffect ==
    [][(last'.op = "free_block" /\ last'.res = "InvalidBlock")
          => \E after \in {FS'} :
                /\ after.sb = sb
                /\ from_disk(after) = from_disk(FS)
                /\ \A f \in BOOLEAN :
                      /\ allocate_block(after, f).res = allocate_block(FS, f).res
                      /\ allocate_block(after, f).val = allocate_block(FS, f).val
                /\ \A b \in 0 .. sb.total_blocks - 1 : Kind(after, b) = Kind(FS, b)]_vars

\* the root directory's inode
RootDir(fs) == read_inode(fs, fs.sb.root_inode).buf

\* the bytes of the entry in slot k of the root directory, when it is not empty
SlotBytes(fs, k) ==
    LET g == get_dir_entry_by_nbr(fs, RootDir(fs), k)
        b == IF g.res = "Ok" THEN get_block_id(fs, RootDir(fs), g.val[1]) ELSE NONE
        addr == b * BLOCK_SIZE + g.val[2]
    IN  IF b = NONE \/ read_u8(fs, addr).val = 0 \/ read_u32(fs, addr + 1).val = 0
            THEN {}
        ELSE addr .. addr + 4 + read_u8(fs, addr).val

\* the bytes of the non-empty entries in the slots the model writes
LiveBytes(fs) == UNION {SlotBytes(fs, k) : k \in 0 .. DirFill + MaxFileOps}

\* C29: write_dir_entry without a slot (append) never changes a byte that belongs
\* to an existing non-empty directory entry, also when the free slot it picks is
\* a tombstone or a zero region that is followed by live entries.
C29_AppendKeepsEntries ==
    [][last'.op = "create_dir_entry"
          => DiffAddrs(disk, disk') \cap LiveBytes(FS) = {}]_vars


\* the blocks that hold the root directory's entries
DirBlocks(fs) == {get_block_id(fs, RootDir(fs), k) : k \in 0 .. 1} \ {NONE, 0}

\* the entry of inode nbr and the given name lies at address a
EntryAt(fs, a, nbr, name) ==
    /\ read_u8(fs, a).val = Len(name)
    /\ read_u32(fs, a + 1).val = nbr
    /\ \A i \in 1 .. Len(name) : read_u8(fs, a + 4 + i).val = name[i]

\* the in-block offsets at which an append that changed the bytes at diff can
\* have put its entry, in block b
Placed(fs, diff, b, nbr, name) ==
    {off \in 0 .. BLOCK_SIZE - 1 :
        /\ EntryAt(fs, b * BLOCK_SIZE + off, nbr, name)
        /\ diff \subseteq b * BLOCK_SIZE + off .. b * BLOCK_SIZE + off + 4 + Len(name)}

\* C30: every directory entry that write_dir_entry places in append mode lies
\* entirely inside one data block: it starts at an in-block offset below the
\* writer's cutoff (3796) and offset + 5 + name_size <= BLOCK_SIZE; and the
\* iterator's end-of-block cutoff never makes it read an entry across a block
\* boundary.
C30_EntriesInsideBlocks ==
    [][\E after \in {FS'} :
        /\ (last'.op = "create_dir_entry" /\ last'.res = "Ok")
              => \E b \in DirBlocks(after) :
                 \E off \in Placed(after,
                                   {a \in DiffAddrs(disk, disk') :
                                        a \div BLOCK_SIZE \in DirBlocks(after)},
                                   b, last'.val, last'.arg) :
                    /\ off < DIR_BLOCK_CUTOFF
                    /\ off + 5 + Len(last'.arg) <= BLOCK_SIZE
        /\ last'.op = "list"
              => DirectoryIteratorReads(after, RootDir(after)).end <= BLOCK_SIZE]_vars

\* an entry with the longest name was appended at the last offset the writer takes
\* in a block (3626, ending past its cutoff), after the directory was iterated
C30_Witness ==
    /\ last.op = "create_dir_entry"
    /\ last.res = "Ok"
    /\ Len(last.arg) = DIRENTRY_NAME_LENGTH - 1
    /\ out # <<>>
    /\ get_block_id(FS, RootDir(FS), 1) = NONE
    /\ EntryAt(FS, get_block_id(FS, RootDir(FS), 0) * BLOCK_SIZE
                     + (DirFill - 1) * (5 + DIRENTRY_NAME_LENGTH - 1),
               last.val, last.arg)


\* cursors in the last block of the singly indirect range, in the first of the
\* doubly indirect range, and in the last block whose byte address is below 2^31
FarCursors ==
    {[next_off |-> 0, next_blk |-> b] :
        b \in {DIRECT_POINTERS + POINTERS_PER_BLOCK - 1, DIRECT_POINTERS + POINTERS_PER_BLOCK,
               POINTERS_PER_BLOCK * (POINTERS_PER_BLOCK \div 2) - 1}}

\* C31: directory iteration terminates: the cursor (block, offset) strictly
\* advances on each entry read, next() returns None when the cursor's block is
\* one the inode does not resolve, and repeated next() eventually returns None.
C31_IterationTerminates ==
    /\ [][last'.op = "next"
             => /\ last'.res # "None"
                    => \/ out'.next_blk > out.next_blk
                       \/ out'.next_blk = out.next_blk /\ out'.next_off > out.next_off
                /\ \A it \in FarCursors \cup {out} :
                      get_block_id(FS, RootDir(FS), it.next_blk) = NONE
                         => DirectoryIterator_next(FS, RootDir(FS), it).res = "None"]_vars
    /\ <>(last.op = "next" /\ last.res = "None")

\* next() returned None in the second block, after the entries that
\* create_dir_entry wrote in the first
C31_Witness ==
    /\ last.op = "next"
    /\ last.res = "None"
    /\ out.next_blk = 1
    /\ read_u8(FS, get_block_id(FS, RootDir(FS), 0) * BLOCK_SIZE).val = DIRENTRY_NAME_LENGTH - 1


====
